---- MODULE Spec2Model ----
(***************************************************************************)
(* Box Model Sentinel: CSS parser, threshold policy, fixed-dimension       *)
(* detectors, ASCII diagram generators and the LRU template cache.         *)
(*                                                                         *)
(* The module holds one state machine per component.  Each component has   *)
(* its own variables, initial predicate and next-state relation:           *)
(*   SpecCache   TemplateCache get / set / has / clear                     *)
(*   SpecEngine  TemplateEngine render / clearCache                        *)
(*   SpecLint    LintEngine.shouldReportFixedValue and detectIssues        *)
(*   SpecParse   parseRules                                                *)
(*   SpecViz     AsciiVisualizer.generate with the built-in generators     *)
(*   SpecPresent mapToVisualizerIssue (three copies) and buildStatsModel   *)
(*   SpecDecl    parseDeclarations                                         *)
(***************************************************************************)
EXTENDS Integers, Sequences, FiniteSets, TLC

VARIABLES
    cache,        \* TemplateCache.cache: Map as sequence of [key, value] in insertion order
    maxSize,      \* TemplateCache.maxSize
    clock,        \* number of cache operations performed so far (observer)
    lastAccess,   \* key -> clock value of its most recent get-hit or set (observer)
    cacheOp,      \* the last cache operation and what it returned / removed (observer)
    stored,       \* TemplateEngine: key -> result of the last renderFn call for it (observer)
    engineOp,     \* the last TemplateEngine operation (observer)
    config,       \* LintEngine.config
    lintOp,       \* the last LintEngine call and its result
    raw,          \* parseRules: the input text, a sequence of characters
    doc,          \* the document structure the text was written from (observer)
    parsed,       \* parseRules: the returned rules, or NotParsed
    generatorInstances, \* AsciiVisualizer.generatorInstances: the types instantiated so far
    vizOp,        \* the last AsciiVisualizer.generate call and its outcome
    presentOp,    \* the last mapToVisualizerIssue / buildStatsModel call and its result
    declOp,       \* the last parseDeclarations call and its result
    detectOp,     \* the last detector call on parsed rules and its result
    debounceTimers, \* LintEngine.debounceTimers: URI -> id of the timer set for it
    timers,       \* the timeouts scheduled in the event loop and not yet run or cleared
    now,          \* the time, in ticks
    issuesByUri,  \* LintEngine.issuesByUri
    diagnosticCollection, \* the diagnostics published per URI
    analysisOp    \* the analyze calls, the analyses run and what listeners received (observer)

cacheVars == <<cache, maxSize, clock, lastAccess, cacheOp>>
engineVars == <<stored, engineOp>>
lintVars == <<config, lintOp>>
parseVars == <<raw, doc, parsed>>
vizVars == <<generatorInstances, vizOp>>
presentVars == <<presentOp>>
declVars == <<declOp>>
detectVars == <<detectOp>>
analyzeVars == <<debounceTimers, timers, now, issuesByUri, diagnosticCollection, analysisOp>>
vars == <<cache, maxSize, clock, lastAccess, cacheOp, stored, engineOp,
          config, lintOp, raw, doc, parsed, generatorInstances, vizOp,
          presentOp, declOp, detectOp,
          debounceTimers, timers, now, issuesByUri, diagnosticCollection, analysisOp>>

None == "none"

\* ---------- generic helpers ----------

\* String.prototype.repeat for a one-character string: n copies of c.
Rep(c, n) == [i \in 1..n |-> c]

Min(a, b) == IF a <= b THEN a ELSE b

Max(a, b) == IF a >= b THEN a ELSE b

LowerLetters == <<"a", "b", "c", "d", "e", "f", "g", "h", "i", "j", "k", "l", "m", "n", "o", "p", "q", "r", "s", "t", "u", "v", "w", "x", "y", "z">>
UpperLetters == <<"A", "B", "C", "D", "E", "F", "G", "H", "I", "J", "K", "L", "M", "N", "O", "P", "Q", "R", "S", "T", "U", "V", "W", "X", "Y", "Z">>

Digits == <<"0", "1", "2", "3", "4", "5", "6", "7", "8", "9">>

IsSpace(c) == c \in {" ", "\n"}

RECURSIVE TrimLeft(_)
TrimLeft(s) == IF s # <<>> /\ IsSpace(Head(s)) THEN TrimLeft(Tail(s)) ELSE s

RECURSIVE TrimRight(_)
TrimRight(s) ==
    IF s # <<>> /\ IsSpace(s[Len(s)]) THEN TrimRight(SubSeq(s, 1, Len(s) - 1)) ELSE s

\* String.prototype.trim
Trim(s) == TrimRight(TrimLeft(s))


\* ---------- TemplateCache (LRU) ----------

CacheKeys == {"k1", "k2", "k3", "k4"}
CacheValues == {"v1", "v2"}
MaxCacheSize == 3
MaxCacheOps == 5
DefaultMaxSize == 100

KeysOf(c) == {c[i].key : i \in 1..Len(c)}

\* Map.prototype.has
CacheHas(c, k) == k \in KeysOf(c)

\* Map.prototype.get: the stored value, or None (undefined) for an absent key
CacheValue(c, k) ==
    IF CacheHas(c, k) THEN c[CHOOSE i \in 1..Len(c) : c[i].key = k].value ELSE None

\* Map.prototype.delete
CacheDelete(c, k) == SelectSeq(c, LAMBDA e : e.key # k)

\* A get that returns the value without moving the key (first-in first-out).
CacheGetFifo(c, k) == c

\* TemplateCache.get, effect on the map: a present key is deleted and
\* re-inserted at the end; an absent key changes nothing.
CacheGet(c, k) ==
    IF ~CacheHas(c, k) THEN c
    ELSE Append(CacheDelete(c, k), [key |-> k, value |-> CacheValue(c, k)])

\* A set that evicts only when the map is already above its capacity.
CacheSetEvictAbove(c, k, v, max) ==
    LET c1 == IF CacheHas(c, k) THEN CacheDelete(c, k) ELSE c
        c2 == IF Len(c1) > max THEN Tail(c1) ELSE c1
    IN  Append(c2, [key |-> k, value |-> v])

\* TemplateCache.set: delete the key if present, evict the first key of the
\* map if size >= maxSize, then insert at the end.
CacheSet(c, k, v, max) ==
    LET c1 == IF CacheHas(c, k) THEN CacheDelete(c, k) ELSE c
        c2 == IF Len(c1) >= max
              THEN (IF Len(c1) = 0 THEN c1 ELSE Tail(c1))
              ELSE c1
    IN  Append(c2, [key |-> k, value |-> v])

IdleCacheOp == [op |-> "init", key |-> None, had |-> FALSE, ret |-> None, removed |-> {}]

Get(k) ==
    /\ clock < MaxCacheOps
    /\ cache' = CacheGet(cache, k)
    /\ clock' = clock + 1
    /\ lastAccess' = IF CacheHas(cache, k)
                     THEN [lastAccess EXCEPT ![k] = clock + 1] ELSE lastAccess
    /\ cacheOp' = [op |-> "get", key |-> k, had |-> CacheHas(cache, k), ret |-> CacheValue(cache, k),
                   removed |-> KeysOf(cache) \ KeysOf(cache')]
    /\ UNCHANGED <<maxSize, engineVars, lintVars, parseVars, vizVars, presentVars, declVars, detectVars, analyzeVars>>

Set(k, v) ==
    /\ clock < MaxCacheOps
    /\ cache' = CacheSet(cache, k, v, maxSize)
    /\ clock' = clock + 1
    /\ lastAccess' = [lastAccess EXCEPT ![k] = clock + 1]
    /\ cacheOp' = [op |-> "set", key |-> k, had |-> CacheHas(cache, k), ret |-> None,
                   removed |-> KeysOf(cache) \ KeysOf(cache')]
    /\ UNCHANGED <<maxSize, engineVars, lintVars, parseVars, vizVars, presentVars, declVars, detectVars, analyzeVars>>

Has(k) ==
    /\ clock < MaxCacheOps
    /\ clock' = clock + 1
    /\ cacheOp' = [op |-> "has", key |-> k, had |-> CacheHas(cache, k), ret |-> CacheHas(cache, k),
                   removed |-> {}]
    /\ UNCHANGED <<cache, maxSize, lastAccess, engineVars, lintVars, parseVars, vizVars, presentVars, declVars, detectVars, analyzeVars>>

Clear ==
    /\ clock < MaxCacheOps
    /\ cache' = <<>>
    /\ clock' = clock + 1
    /\ cacheOp' = [op |-> "clear", key |-> None, had |-> FALSE, ret |-> None,
                   removed |-> KeysOf(cache)]
    /\ UNCHANGED <<maxSize, lastAccess, engineVars, lintVars, parseVars, vizVars, presentVars, declVars, detectVars, analyzeVars>>

\* ---------- TemplateEngine ----------

\* The issues handed to render: the first two differ only in the line number,
\* the last two have different fields but the same type:severity:value text.
EngineIssues ==
    { [type |-> "fixed-dimensions", severity |-> "critical", value |-> "600px", line |-> 1],
      [type |-> "fixed-dimensions", severity |-> "critical", value |-> "600px", line |-> 2],
      [type |-> "fixed-dimensions", severity |-> "medium", value |-> "600px", line |-> 1],
      [type |-> "a", severity |-> "b:c", value |-> "d", line |-> 1],
      [type |-> "a:b", severity |-> "c", value |-> "d", line |-> 1] }

RenderResults == {"r1", "r2"}

\* TemplateCache.generateKey
generateKey(issue) == issue.type \o ":" \o issue.severity \o ":" \o issue.value

EngineKeys == {generateKey(i) : i \in EngineIssues}

\* A render that calls renderFn on every call and overwrites the entry.
renderAlways(c, issue, fnResult, max) ==
    [cache |-> CacheSet(c, generateKey(issue), fnResult, max),
     result |-> fnResult, invoked |-> TRUE]

\* TemplateEngine.render: fnResult is what renderFn(issue) returns if called.
render(c, issue, fnResult, max) ==
    LET cacheKey == generateKey(issue) IN
    IF CacheHas(c, cacheKey)
    THEN [cache |-> CacheGet(c, cacheKey), result |-> CacheValue(c, cacheKey),
          invoked |-> FALSE]
    ELSE [cache |-> CacheSet(c, cacheKey, fnResult, max), result |-> fnResult,
          invoked |-> TRUE]

IdleEngineOp == [op |-> "init", key |-> None, result |-> None, invoked |-> FALSE]

Render(issue, fnResult) ==
    LET r == render(cache, issue, fnResult, maxSize) IN
    /\ cache' = r.cache
    /\ engineOp' = [op |-> "render", key |-> generateKey(issue),
                    result |-> r.result, invoked |-> r.invoked]
    /\ stored' = IF r.invoked
                 THEN [stored EXCEPT ![generateKey(issue)] = fnResult] ELSE stored
    /\ UNCHANGED <<maxSize, clock, lastAccess, cacheOp, lintVars, parseVars, vizVars, presentVars, declVars, detectVars, analyzeVars>>

ClearCache ==
    /\ cache' = <<>>
    /\ engineOp' = [op |-> "clearCache", key |-> None, result |-> None,
                    invoked |-> FALSE]
    /\ UNCHANGED <<maxSize, clock, lastAccess, cacheOp, stored, lintVars, parseVars, vizVars, presentVars, declVars, detectVars, analyzeVars>>

\* ---------- LintEngine: threshold policy and fixed-dimension detection ----------

\* Character sequences stand for strings wherever the code inspects characters.
RECURSIVE IsPrefixAt(_, _, _)
IsPrefixAt(s, p, i) ==
    \* p occurs in s starting at 1-based position i
    IF Len(p) = 0 THEN TRUE
    ELSE IF i + Len(p) - 1 > Len(s) THEN FALSE
    ELSE SubSeq(s, i, i + Len(p) - 1) = p

\* String.prototype.includes
Includes(s, p) == \E i \in 1..(Len(s) + 1) : IsPrefixAt(s, p, i)

LowerChar(c) ==
    IF \E k \in 1..26 : UpperLetters[k] = c
    THEN LowerLetters[CHOOSE k \in 1..26 : UpperLetters[k] = c]
    ELSE c

\* String.prototype.toLowerCase
ToLower(s) == [i \in 1..Len(s) |-> LowerChar(s[i])]

\* (this.config.mode || 'strict').toLowerCase()
EffectiveMode(m) ==
    CASE m = "" -> "strict"
      [] m = "Strict" -> "strict"
      [] m = "Pragmatic" -> "pragmatic"
      [] OTHER -> m

LintModes == {"strict", "pragmatic", "Strict", "Pragmatic", ""}
WidthThresholds == {0, 320}
HeightThresholds == {0, 200}
SpacingThresholds == {24}
IgnoreLists == { <<>>, << <<"b">> >> }

Configs ==
    [mode : LintModes, fixedWidthThreshold : WidthThresholds,
     fixedHeightThreshold : HeightThresholds,
     fixedSpacingThreshold : SpacingThresholds, ignoreSelectors : IgnoreLists]

\* The constructor's defaults.
DefaultConfig ==
    [mode |-> "strict", fixedWidthThreshold |-> 320, fixedHeightThreshold |-> 320,
     fixedSpacingThreshold |-> 24, ignoreSelectors |-> <<>>]

\* Numeric arguments of the policy: finite numbers and the non-finite values.
\* A JavaScript number is [kind, n]: kind "finite" with value n, or one of the
\* non-finite kinds (n is then 0 and unused).
Num(n) == [kind |-> "finite", n |-> n]
NonFinite == {[kind |-> k, n |-> 0] : k \in {"NaN", "Infinity", "-Infinity"}}
FiniteValues == {Num(n) : n \in {0, 24, 25, 200, 201, 320, 321}}
Kinds == {"width", "height", "spacing", "flex-basis", "grid-track", "other"}

\* Number.isFinite
IsFinite(v) == v.kind = "finite"

\* A policy that reports a value equal to the threshold.
shouldReportAtThreshold(cfg, type, numericValue) ==
    IF EffectiveMode(cfg.mode) = "strict" THEN TRUE
    ELSE IF ~IsFinite(numericValue) THEN TRUE
    ELSE CASE type \in {"width", "grid-track", "flex-basis"} ->
                  numericValue.n >= cfg.fixedWidthThreshold
           [] type = "height" -> numericValue.n >= cfg.fixedHeightThreshold
           [] type = "spacing" -> numericValue.n >= cfg.fixedSpacingThreshold
           [] OTHER -> TRUE

\* LintEngine.shouldReportFixedValue (threshold || 0 is the threshold itself
\* for the numeric thresholds drawn here).
shouldReportFixedValue(cfg, type, numericValue) ==
    IF EffectiveMode(cfg.mode) = "strict" THEN TRUE
    ELSE IF ~IsFinite(numericValue) THEN TRUE
    ELSE CASE type \in {"width", "grid-track", "flex-basis"} ->
                  numericValue.n > cfg.fixedWidthThreshold
           [] type = "height" -> numericValue.n > cfg.fixedHeightThreshold
           [] type = "spacing" -> numericValue.n > cfg.fixedSpacingThreshold
           [] OTHER -> TRUE

\* A declaration value is [num, unit]: "200px" is [200, "px"], "50%" is
\* [50, "%"]; NoDecl stands for a property the rule does not declare.
NoDecl == [num |-> 0, unit |-> "absent"]
Px(n) == [num |-> n, unit |-> "px"]
Pct(n) == [num |-> n, unit |-> "%"]

\* /\b\d+px\b/i.test(value) on a declared value
IsFixedPx(d) == d.unit = "px"

\* parseFloat of the first number followed by px
PxNumber(d) == Num(d.num)

\* The documents analysed: one rule per line, each rule written as
\* "selector { width: ..; height: ..; min-width: .. }" with absent
\* declarations left out, so that rule i of the parse is line i of the text.
LintSelectors == << <<".", "a">>, <<".", "B", "o", "x">> >>
WidthDecls == {NoDecl, Px(320), Px(321), Pct(50)}
HeightDecls == {NoDecl, Px(200), Px(201)}
MinWidthDecls == {NoDecl, Px(100)}
LanguageIds == {"css", "scss", "less", "sass"}

LintRule(i, w, h, mw) ==
    [selector |-> LintSelectors[i],
     declarations |-> [width |-> w, height |-> h, minWidth |-> mw]]

LintDocs ==
    { [languageId |-> l, rules |-> <<LintRule(1, w, h, mw)>>] :
        l \in LanguageIds, w \in WidthDecls, h \in HeightDecls, mw \in MinWidthDecls }
    \cup
    { [languageId |-> l, rules |-> <<LintRule(1, w, NoDecl, NoDecl), LintRule(2, w2, h2, NoDecl)>>] :
        l \in LanguageIds, w \in WidthDecls, w2 \in WidthDecls, h2 \in HeightDecls }

\* ignoreSelectors test of detectFixedDimensions: some pattern is a
\* case-insensitive substring of the selector.
IsIgnored(cfg, sel) ==
    \E i \in 1..Len(cfg.ignoreSelectors) :
        Includes(ToLower(sel), ToLower(cfg.ignoreSelectors[i]))

FixedIssue(name, sev, prop, d, sel) ==
    [issue |-> name, severity |-> sev, property |-> prop, value |-> d, selector |-> sel]

\* The issues detectFixedDimensions pushes for one rule.
FixedDimensionsOfRule(cfg, r) ==
    LET w == r.declarations.width
        h == r.declarations.height
        mw == r.declarations.minWidth
    IN  IF IsIgnored(cfg, r.selector) THEN <<>>
        ELSE
          (IF IsFixedPx(w) /\ shouldReportFixedValue(cfg, "width", PxNumber(w))
           THEN <<FixedIssue("Fixed width", "medium", "width", w, r.selector)>>
           ELSE <<>>)
          \o
          (IF IsFixedPx(h) /\ shouldReportFixedValue(cfg, "height", PxNumber(h))
           THEN <<FixedIssue("Fixed height", "medium", "height", h, r.selector)>>
           ELSE <<>>)
          \o
          (IF IsFixedPx(w) /\ IsFixedPx(h)
           THEN <<FixedIssue("Fixed box dimensions", "critical", None, NoDecl, r.selector)>>
           ELSE <<>>)
          \o
          (IF IsFixedPx(mw)
           THEN <<FixedIssue("Fixed minimum dimension", "medium", None, NoDecl, r.selector)>>
           ELSE <<>>)

RECURSIVE detectFixedDimensions(_, _)
\* LintEngine.detectFixedDimensions
detectFixedDimensions(cfg, rules) ==
    IF rules = <<>> THEN <<>>
    ELSE FixedDimensionsOfRule(cfg, Head(rules))
            \o detectFixedDimensions(cfg, Tail(rules))

\* The issues detectIssuesFromText pushes for one line.  The line regexes
\* /width:\s*(\d+(\.\d+)?)px/i and /height:.../i take the first match in the
\* line: the width declaration if it is in px, else the min-width declaration
\* (whose text ends in "width: Npx").
FromTextOfLine(cfg, r) ==
    LET w == r.declarations.width
        h == r.declarations.height
        mw == r.declarations.minWidth
        wm == IF IsFixedPx(w) THEN w ELSE mw
    IN  (IF IsFixedPx(wm)
         THEN <<FixedIssue("Fixed width", "medium", "width", wm, <<>>)>> ELSE <<>>)
        \o
        (IF IsFixedPx(h)
         THEN <<FixedIssue("Fixed height", "medium", "height", h, <<>>)>> ELSE <<>>)

RECURSIVE detectIssuesFromText(_, _)
\* LintEngine.detectIssuesFromText
detectIssuesFromText(cfg, rules) ==
    IF rules = <<>> THEN <<>>
    ELSE FromTextOfLine(cfg, Head(rules)) \o detectIssuesFromText(cfg, Tail(rules))

\* The upfront ignoreSelectors filter of detectIssues: patterns that are
\* empty after trim are dropped, the rest match as lower-cased substrings.
UpfrontFilter(cfg, rules) ==
    LET pats == SelectSeq(cfg.ignoreSelectors, LAMBDA q : Trim(q) # <<>>) IN
    SelectSeq(rules, LAMBDA r :
        ~\E i \in 1..Len(pats) : Includes(ToLower(r.selector), ToLower(pats[i])))

\* LintEngine.detectIssues, restricted to the detector that emits the
\* fixed-dimension issues: less and sass go through the line-based text
\* fallback, css and scss through the parsed rules.
detectIssues(cfg, document) ==
    IF document.languageId \in {"less", "sass"}
    THEN detectIssuesFromText(cfg, document.rules)
    ELSE detectFixedDimensions(cfg, UpfrontFilter(cfg, document.rules))

IdleLintOp == [op |-> "init", kind |-> None, value |-> Num(0), ret |-> FALSE,
               languageId |-> None, issues |-> <<>>]

\* A call of shouldReportFixedValue(kind, v).
ShouldReport(kind, v) ==
    /\ lintOp.op = "init"
    /\ lintOp' = [op |-> "shouldReport", kind |-> kind, value |-> v,
                  ret |-> shouldReportFixedValue(config, kind, v),
                  languageId |-> None, issues |-> <<>>]
    /\ UNCHANGED <<config, cacheVars, engineVars, parseVars, vizVars, presentVars, declVars, detectVars, analyzeVars>>

\* A call of detectIssues(css, document).
DetectIssues(document) ==
    /\ lintOp.op = "init"
    /\ lintOp' = [op |-> "detectIssues", kind |-> None, value |-> Num(0),
                  ret |-> FALSE, languageId |-> document.languageId,
                  issues |-> detectIssues(config, document)]
    /\ UNCHANGED <<config, cacheVars, engineVars, parseVars, vizVars, presentVars, declVars, detectVars, analyzeVars>>

\* ---------- parseRules ----------

\* Positions are 1-based here; 0 stands for JavaScript's -1 (not found).

SetMin(S) == CHOOSE x \in S : \A y \in S : x <= y

\* String.prototype.indexOf(p, from): the first position >= from where p occurs.
IndexOf(s, p, from) ==
    LET hits == {i \in from..(Len(s) - Len(p) + 1) : IsPrefixAt(s, p, i)} IN
    IF hits = {} THEN 0 ELSE SetMin(hits)

RECURSIVE stripComments(_)
\* s.replace(/\/\*[\s\S]*?\*\//g, ''): every "/*" up to the next "*/" is removed.
stripComments(s) ==
    LET open == IndexOf(s, <<"/", "*">>, 1)
        close == IF open = 0 THEN 0 ELSE IndexOf(s, <<"*", "/">>, open + 2)
    IN  IF open = 0 \/ close = 0 THEN s
        ELSE SubSeq(s, 1, open - 1) \o stripComments(SubSeq(s, close + 2, Len(s)))

RECURSIVE Split(_, _)
\* String.prototype.split on a one-character separator
Split(s, sep) ==
    LET i == IndexOf(s, <<sep>>, 1) IN
    IF i = 0 THEN <<s>>
    ELSE <<SubSeq(s, 1, i - 1)>> \o Split(SubSeq(s, i + 1, Len(s)), sep)

RECURSIVE DeclFold(_, _)
DeclFold(lines, obj) ==
    IF lines = <<>> THEN obj
    ELSE LET line == Trim(Head(lines))
             i == IndexOf(line, <<":">>, 1)
             k == ToLower(Trim(SubSeq(line, 1, i - 1)))
             v == Trim(SubSeq(line, i + 1, Len(line)))
         IN  IF line = <<>> \/ i = 0 THEN DeclFold(Tail(lines), obj)
             ELSE DeclFold(Tail(lines),
                           [x \in (DOMAIN obj) \cup {k} |-> IF x = k THEN v ELSE obj[x]])

RECURSIVE DeclFoldKeepFirst(_, _)
\* A fold that keeps the value a property already has.
DeclFoldKeepFirst(lines, obj) ==
    IF lines = <<>> THEN obj
    ELSE LET line == Trim(Head(lines))
             i == IndexOf(line, <<":">>, 1)
             k == ToLower(Trim(SubSeq(line, 1, i - 1)))
             v == Trim(SubSeq(line, i + 1, Len(line)))
         IN  IF line = <<>> \/ i = 0 THEN DeclFoldKeepFirst(Tail(lines), obj)
             ELSE DeclFoldKeepFirst(Tail(lines),
                     [x \in (DOMAIN obj) \cup {k} |->
                         IF x \in DOMAIN obj THEN obj[x] ELSE v])

\* A parseDeclarations in which the first occurrence of a property wins.
parseDeclarationsKeepFirst(block) ==
    DeclFoldKeepFirst(Split(block, ";"), [x \in {} |-> <<>>])

\* parseDeclarations: the object as a function from property name to value.
parseDeclarations(block) == DeclFold(Split(block, ";"), [x \in {} |-> <<>>])

\* Number of positions in a..b of s that hold character c.
CountChar(s, c, a, b) == Cardinality({k \in a..b : s[k] = c})

\* A brace scan that does not count opening braces: it stops at the first "}".
MatchDepthFlat(s, j, depth) ==
    LET stops == {k \in j..Len(s) : depth - CountChar(s, "}", j, k) = 0}
    IN  IF depth <= 0 THEN j
        ELSE IF stops = {} THEN Len(s) + 1 ELSE SetMin(stops) + 1

\* The brace scan of parseRules, while (j < s.length && depth > 0): depth goes
\* up on "{" and down on "}", and the scan stops one past the first position
\* that brings depth to 0, or past the end of the text if there is none.
MatchDepth(s, j, depth) ==
    LET stops == {k \in j..Len(s) :
                    depth + CountChar(s, "{", j, k) - CountChar(s, "}", j, k) = 0}
    IN  IF depth <= 0 THEN j
        ELSE IF stops = {} THEN Len(s) + 1 ELSE SetMin(stops) + 1

AtMedia == <<"@", "m", "e", "d", "i", "a">>

RECURSIVE MediaBlocks(_, _)
\* The @media scan of parseRules from position i: full text, condition and
\* body of every block found.  j is the position the brace scan stopped at,
\* one past the last character scanned; the body s.slice(braceOpen + 1, j - 1)
\* always leaves out the last character scanned.
MediaBlocks(s, i) ==
    IF i > Len(s) THEN <<>>
    ELSE
      LET idx == IndexOf(s, AtMedia, i)
          headStart == idx + 6
          braceOpen == IF idx = 0 THEN 0 ELSE IndexOf(s, <<"{">>, headStart)
          j == MatchDepth(s, braceOpen + 1, 1)
      IN  IF idx = 0 \/ braceOpen = 0 THEN <<>>
          ELSE <<[full |-> SubSeq(s, idx, j - 1),
                  condition |-> Trim(SubSeq(s, headStart, braceOpen - 1)),
                  body |-> SubSeq(s, braceOpen + 1, j - 2)]>>
               \o MediaBlocks(s, j)

\* String.prototype.replace(full, ''): the first occurrence of full removed.
ReplaceFirst(rest, full) ==
    LET i == IndexOf(rest, full, 1) IN
    IF i = 0 \/ Len(full) = 0 THEN rest
    ELSE SubSeq(rest, 1, i - 1) \o SubSeq(rest, i + Len(full), Len(rest))

RECURSIVE RemoveBlocks(_, _)
RemoveBlocks(rest, blocks) ==
    IF blocks = <<>> THEN rest
    ELSE RemoveBlocks(ReplaceFirst(rest, Head(blocks).full), Tail(blocks))

RECURSIVE SkipBraces(_, _)
SkipBraces(t, p) == IF p <= Len(t) /\ t[p] = "{" THEN SkipBraces(t, p + 1) ELSE p

RECURSIVE RuleMatches(_, _, _)
\* The exec loop of /([^{]+)\{([^}]*)\}/g over t from position pos: a match
\* starts at the first character that is not "{", its selector runs to the
\* next "{" and its block to the next "}"; without them there is no match.
RuleMatches(t, pos, at) ==
    LET p == SkipBraces(t, pos)
        q == IF p > Len(t) THEN 0 ELSE IndexOf(t, <<"{">>, p)
        r == IF q = 0 THEN 0 ELSE IndexOf(t, <<"}">>, q + 1)
    IN  IF q = 0 \/ r = 0 THEN <<>>
        ELSE <<[selector |-> Trim(SubSeq(t, p, q - 1)),
                declarations |-> parseDeclarations(SubSeq(t, q + 1, r - 1)),
                at |-> at]>>
             \o RuleMatches(t, r + 1, at)

NoAt == [type |-> "null", condition |-> <<>>]

RECURSIVE MediaRules(_)
MediaRules(blocks) ==
    IF blocks = <<>> THEN <<>>
    ELSE RuleMatches(Head(blocks).body, 1,
                     [type |-> "media", condition |-> Head(blocks).condition])
         \o MediaRules(Tail(blocks))

\* A parser that returns the media rules before the base rules.
parseRulesMediaFirst(text) ==
    LET s == stripComments(text)
        mediaBlocks == MediaBlocks(s, 1)
        rest == RemoveBlocks(s, mediaBlocks)
    IN  MediaRules(mediaBlocks) \o RuleMatches(rest, 1, NoAt)

\* parseRules(raw).rules
parseRules(text) ==
    LET s == stripComments(text)
        mediaBlocks == MediaBlocks(s, 1)
        rest == RemoveBlocks(s, mediaBlocks)
    IN  RuleMatches(rest, 1, NoAt) \o MediaRules(mediaBlocks)

NotParsed ==
    <<[selector |-> <<"?">>, declarations |-> [x \in {} |-> <<>>],
       at |-> [type |-> "unparsed", condition |-> <<>>]]>>

\* The documents parsed.  A document is written from a list of top-level
\* items (flat rules, @media blocks holding flat rules, comments) in one of two
\* layouts, and may lose its last characters (an input that ends early).
MaxItems == 3
MaxCut == 2

RuleItem(sel) == [kind |-> "rule", sel |-> sel, cond |-> <<>>, rules |-> <<>>]
MediaItem(cond, sels) == [kind |-> "media", sel |-> <<>>, cond |-> cond, rules |-> sels]
CommentItem == [kind |-> "comment", sel |-> <<>>, cond |-> <<>>, rules |-> <<>>]

ParseItems ==
    { RuleItem(<<"a">>), RuleItem(<<"b">>),
      MediaItem(<<"c">>, <<>>), MediaItem(<<"c">>, << <<"a">> >>),
      MediaItem(<<"c">>, << <<"a">>, <<"b">> >>), MediaItem(<<"d">>, << <<"b">> >>),
      CommentItem }

ItemLists == UNION { [1..n -> ParseItems] : n \in 0..MaxItems }

Layouts == {"tight", "spaced"}

ParseDocs == [items : ItemLists, layout : Layouts, cut : 0..MaxCut]

\* The text of a flat rule up to and including its closing brace.
RuleCore(sel, layout) ==
    IF layout = "tight" THEN sel \o <<"{", "w", ":", "1", "}">>
    ELSE sel \o <<" ", "{", "\n", " ", " ", "W", " ", ":", " ", "1", "p", "x", " ", ";", "\n", "}">>

Trailer(layout) == IF layout = "tight" THEN <<>> ELSE <<"\n">>

RuleText(sel, layout) == RuleCore(sel, layout) \o Trailer(layout)

MediaHead(cond, layout) ==
    AtMedia \o <<" ">> \o cond \o (IF layout = "tight" THEN <<"{">> ELSE <<" ", "{", "\n">>)

RECURSIVE RulesText(_, _)
RulesText(sels, layout) ==
    IF sels = <<>> THEN <<>>
    ELSE RuleText(Head(sels), layout) \o RulesText(Tail(sels), layout)

ItemText(it, layout) ==
    CASE it.kind = "rule" -> RuleText(it.sel, layout)
      [] it.kind = "media" ->
            MediaHead(it.cond, layout) \o RulesText(it.rules, layout)
            \o <<"}">> \o Trailer(layout)
      [] OTHER -> <<"/", "*", "}", "*", "/">> \o Trailer(layout)

RECURSIVE ItemsText(_, _)
ItemsText(items, layout) ==
    IF items = <<>> THEN <<>>
    ELSE ItemText(Head(items), layout) \o ItemsText(Tail(items), layout)

FullText(d) == ItemsText(d.items, d.layout)

\* The input: the document's text without its last d.cut characters.
DocText(d) == SubSeq(FullText(d), 1, Max(0, Len(FullText(d)) - d.cut))

\* A call of parseRules(raw).
ParseRules ==
    /\ parsed = NotParsed
    /\ parsed' = parseRules(raw)
    /\ UNCHANGED <<raw, doc, cacheVars, engineVars, lintVars, vizVars, presentVars, declVars, detectVars, analyzeVars>>

\* ---------- ASCII visualizer: characters and text ----------

\* A string is the sequence of its code points.  An ASCII character is written
\* as itself and any other character by its code point, "U+2716" for U+2716.
CodePoint ==
    ("U+2588" :> \H2588) @@ ("U+2593" :> \H2593) @@ ("U+2591" :> \H2591) @@
    ("U+2500" :> \H2500) @@ ("U+2502" :> \H2502) @@ ("U+250C" :> \H250C) @@
    ("U+2510" :> \H2510) @@ ("U+2514" :> \H2514) @@ ("U+2518" :> \H2518) @@
    ("U+25BC" :> \H25BC) @@ ("U+25BA" :> \H25BA) @@ ("U+25C4" :> \H25C4) @@
    ("U+2026" :> \H2026) @@ ("U+2022" :> \H2022) @@ ("U+2716" :> \H2716) @@
    ("U+26A0" :> \H26A0) @@ ("U+24D8" :> \H24D8) @@ ("U+2713" :> \H2713) @@
    ("U+2192" :> \H2192) @@ ("U+FE0F" :> \HFE0F) @@ ("U+1D49C" :> \H1D49C) @@
    ("U+1F600" :> \H1F600) @@ ("U+251C" :> \H251C) @@
    ("U+2524" :> \H2524)

\* String.prototype.codePointAt(0) of a one-character string.  Every ASCII
\* character lies below all the ranges the code compares against.
codePointAt(c) == IF c \in DOMAIN CodePoint THEN CodePoint[c] ELSE 127

\* The number of UTF-16 code units of a character: two beyond the BMP.
CodeUnits(c) == IF codePointAt(c) > \HFFFF THEN 2 ELSE 1

\* The one element of a singleton set.  An operator that reads a text many
\* times names its value with a bound variable first, The({F(t) : t \in {text}})
\* for F(text), so that the text is worked out once.
The(S) == CHOOSE r \in S : TRUE

\* String.prototype.length: the number of UTF-16 code units.
Length(s) ==
    The({ Len(t) + Cardinality({i \in 1..Len(t) : CodeUnits(t[i]) = 2}) : t \in {s} })

CHARS ==
    [SOLID |-> "U+2588", MEDIUM |-> "U+2593", LIGHT |-> "U+2591",
     H_LINE |-> "U+2500", V_LINE |-> "U+2502",
     TOP_LEFT |-> "U+250C", TOP_RIGHT |-> "U+2510",
     BOTTOM_LEFT |-> "U+2514", BOTTOM_RIGHT |-> "U+2518",
     DOWN |-> "U+25BC", RIGHT |-> "U+25BA", LEFT |-> "U+25C4",
     ELLIPSIS |-> "U+2026", SPACE |-> " ", DOT |-> "U+2022"]

EMOJI ==
    [CRITICAL |-> "U+2716", MEDIUM |-> "U+26A0", LOW |-> "U+24D8",
     PROBLEM |-> "U+2716", SOLUTION |-> "U+2713", ARROW |-> "U+2192"]

SetMax(S) == CHOOSE x \in S : \A y \in S : x >= y

\* TextFormatter.isEmoji of a whole character.
isEmoji(char) ==
    \E codePoint \in {codePointAt(char)} :
        \/ codePoint >= \H1F300 /\ codePoint <= \H1F9FF
        \/ codePoint >= \H2600 /\ codePoint <= \H26FF
        \/ codePoint >= \H2700 /\ codePoint <= \H27BF
        \/ codePoint >= \H2139 /\ codePoint <= \H2139
        \/ codePoint >= \H2194 /\ codePoint <= \H21AA

\* TextFormatter.visualLength walks the UTF-16 code units text[i]: a unit that
\* is an emoji counts 2 and a U+FE0F right after it is skipped; any other unit
\* counts 1.  A character beyond the BMP is two surrogate units, neither of
\* them an emoji, so it counts 2 whatever it is.
visualLength(text) ==
    The({ LET n == Len(t)
              unitEmoji(i) == CodeUnits(t[i]) = 1 /\ isEmoji(t[i])
              two == {i \in 1..n : unitEmoji(i) \/ CodeUnits(t[i]) = 2}
              skipped == {i \in 2..n : t[i] = "U+FE0F" /\ unitEmoji(i - 1)}
          IN  n + Cardinality(two) - Cardinality(skipped) : t \in {text} })

\* The characters the loop of truncate keeps.  "for (const char of text)"
\* walks whole characters, charLength 2 for an emoji and 1 otherwise, and keeps
\* them while the running length stays within targetLength: the running
\* length after k characters is k plus the number of emoji among them.
KeptPrefix(text, targetLength) ==
    The({ LET kept == {k \in 0..Len(text) :
                          k + Cardinality(emoji \cap 1..k) <= targetLength}
          IN  SubSeq(text, 1, IF kept = {} THEN 0 ELSE SetMax(kept)) :
          emoji \in { {i \in 1..Len(text) : isEmoji(text[i])} } })

\* A truncate that cuts without first asking whether the text fits.
truncateAlways(text, maxLength) ==
    The({ KeptPrefix(t, maxLength - 1) \o <<CHARS.ELLIPSIS>> : t \in {text} })

\* TextFormatter.truncate
truncate(text, maxLength) ==
    The({ IF visualLength(t) <= maxLength THEN t
          ELSE KeptPrefix(t, maxLength - 1) \o <<CHARS.ELLIPSIS>> : t \in {text} })

\* TextFormatter.pad
pad(text, width, align) ==
    The({ IF textLength >= width THEN truncate(t, width)
          ELSE LET padding == width - textLength
                   leftPad == padding \div 2
               IN  CASE align = "center" ->
                          Rep(" ", leftPad) \o t \o Rep(" ", padding - leftPad)
                     [] align = "right" -> Rep(" ", padding) \o t
                     [] OTHER -> t \o Rep(" ", padding) :
          t \in {text}, textLength \in {visualLength(text)} })

RECURSIVE Join(_, _)
\* Array.prototype.join with a one-character separator.
Join(lines, sep) ==
    IF lines = <<>> THEN <<>>
    ELSE IF Len(lines) = 1 THEN lines[1]
    ELSE lines[1] \o <<sep>> \o Join(Tail(lines), sep)

\* String.prototype.toUpperCase, on the letters the type labels are made of.
toUpperCase(s) ==
    [i \in 1..Len(s) |->
        IF \E k \in 1..26 : LowerLetters[k] = s[i]
        THEN UpperLetters[CHOOSE k \in 1..26 : LowerLetters[k] = s[i]]
        ELSE s[i]]

RECURSIVE NumberToString(_)
\* The decimal text of an integer, as a template literal writes it.
NumberToString(n) ==
    IF n < 0 THEN <<"-">> \o NumberToString(0 - n)
    ELSE IF n < 10 THEN <<Digits[n + 1]>>
    ELSE NumberToString(n \div 10) \o <<Digits[(n % 10) + 1]>>

\* ---------- ASCII visualizer: BaseGenerator ----------

maxWidth == 60

\* BaseGenerator.getSeverityEmoji
getSeverityEmoji(severity) ==
    CASE severity = "critical" -> EMOJI.CRITICAL
      [] severity = "medium" -> EMOJI.MEDIUM
      [] severity = "low" -> EMOJI.LOW
      [] OTHER -> EMOJI.LOW

\* A header whose title stops after the severity glyph.
renderHeaderNoLine(data) ==
    LET title == toUpperCase(data.type) \o <<" ", CHARS.DOT, " ", data.severityEmoji>>
        padding == maxWidth - 2
    IN  << <<CHARS.TOP_LEFT>> \o Rep(CHARS.H_LINE, padding) \o <<CHARS.TOP_RIGHT>>,
           <<CHARS.V_LINE>> \o pad(title, padding, "left") \o <<CHARS.V_LINE>>,
           <<CHARS.V_LINE>> \o Rep(CHARS.H_LINE, padding) \o <<CHARS.V_LINE>> >>

\* BaseGenerator.renderHeader
renderHeader(data) ==
    LET title == toUpperCase(data.type) \o <<" ", CHARS.DOT, " ", data.severityEmoji,
                                             " ", CHARS.DOT, " ", "L">>
                    \o NumberToString(data.line)
        padding == maxWidth - 2
    IN  << <<CHARS.TOP_LEFT>> \o Rep(CHARS.H_LINE, padding) \o <<CHARS.TOP_RIGHT>>,
           <<CHARS.V_LINE>> \o pad(title, padding, "left") \o <<CHARS.V_LINE>>,
           <<CHARS.V_LINE>> \o Rep(CHARS.H_LINE, padding) \o <<CHARS.V_LINE>> >>

\* before.content[i] || ''
LineOrEmpty(content, i) == IF i <= Len(content) THEN content[i] ELSE <<>>

\* BaseGenerator.renderComparison
renderComparison(before, after) ==
    LET halfWidth == (maxWidth - 2) \div 2
        labelLine == pad(<<" ", " ">> \o before.label, halfWidth, "left")
                        \o <<EMOJI.ARROW>>
                        \o pad(after.label, halfWidth - 2, "left")
        maxLines == Max(Len(before.content), Len(after.content))
        contentLine(i) ==
            LET beforeLine == pad(LineOrEmpty(before.content, i), halfWidth, "left")
                afterLine == pad(LineOrEmpty(after.content, i), halfWidth - 1, "left")
                fullLine == beforeLine \o <<" ">> \o afterLine
                paddedLine == pad(fullLine, maxWidth - 2, "left")
            IN  <<CHARS.V_LINE>> \o paddedLine \o <<CHARS.V_LINE>>
        measureLine ==
            pad(<<" ", " ", before.statusEmoji, " ">> \o before.measurements,
                halfWidth, "left")
              \o <<" ">>
              \o pad(<<after.statusEmoji, " ">> \o after.measurements,
                     halfWidth - 1, "left")
        paddedMeasureLine == pad(measureLine, maxWidth - 2, "left")
    IN  << <<CHARS.V_LINE>> \o labelLine \o <<CHARS.V_LINE>> >>
          \o [i \in 1..maxLines |-> contentLine(i)]
          \o << <<CHARS.V_LINE>> \o paddedMeasureLine \o <<CHARS.V_LINE>> >>

\* BaseGenerator.renderFooter
renderFooter ==
    LET padding == maxWidth - 2 IN
    << <<CHARS.BOTTOM_LEFT>> \o Rep(CHARS.H_LINE, padding) \o <<CHARS.BOTTOM_RIGHT>> >>

\* BaseGenerator.createBeforeLayout
createBeforeLayout(content, measurements) ==
    [label |-> <<"B", "E", "F", "O", "R", "E">>, statusEmoji |-> EMOJI.PROBLEM,
     content |-> content, measurements |-> measurements]

\* BaseGenerator.createAfterLayout
createAfterLayout(content, measurements) ==
    [label |-> <<"A", "F", "T", "E", "R">>, statusEmoji |-> EMOJI.SOLUTION,
     content |-> content, measurements |-> measurements]

\* BaseGenerator.generateStandardVisualization
generateStandardVisualization(issue, typeLabel, beforeContent, afterContent) ==
    LET headerData == [type |-> typeLabel, severity |-> issue.severity,
                       severityEmoji |-> getSeverityEmoji(issue.severity),
                       line |-> issue.line.n]
    IN  The({ [ascii |-> Join(lines, "\n"), width |-> maxWidth, height |-> Len(lines)] :
              lines \in { renderHeader(headerData) \o renderComparison(before, after)
                            \o renderFooter :
                          before \in { createBeforeLayout(beforeContent,
                                          issue.property \o <<":", " ">> \o issue.value) },
                          after \in { createAfterLayout(afterContent,
                                          IF issue.suggestion # <<>> THEN issue.suggestion
                                          ELSE <<"U", "s", "e", " ", "r", "e", "s", "p", "o", "n", "s", "i", "v", "e", " ", "u", "n", "i", "t", "s">>) } } })

\* ---------- ASCII visualizer: the generators ----------

\* The start of a line drawn inside a column: two spaces and a glyph.
Indent(c) == <<" ", " ", c>>

\* A number as parseValue returns it: num / den, or null.
Null == [null |-> TRUE, num |-> 0, den |-> 1]
Ratio(num, den) == [null |-> FALSE, num |-> num, den |-> den]

IsDigits(s) == s # <<>> /\ \A i \in 1..Len(s) : \E d \in 1..10 : Digits[d] = s[i]

RECURSIVE DigitsValue(_)
DigitsValue(s) ==
    IF s = <<>> THEN 0
    ELSE 10 * DigitsValue(SubSeq(s, 1, Len(s) - 1))
            + ((CHOOSE d \in 1..10 : Digits[d] = s[Len(s)]) - 1)

RECURSIVE Pow10(_)
Pow10(n) == IF n = 0 THEN 1 ELSE 10 * Pow10(n - 1)

\* The match of /^(\d+(?:\.\d+)?)<unit>$/ and parseFloat of its group.
ParseNumberWithUnit(value, unit) ==
    LET n == Len(value) - Len(unit)
        body == SubSeq(value, 1, n)
        dot == IndexOf(body, <<".">>, 1)
        whole == IF dot = 0 THEN body ELSE SubSeq(body, 1, dot - 1)
        frac == IF dot = 0 THEN <<>> ELSE SubSeq(body, dot + 1, Len(body))
    IN  IF n < 1 \/ SubSeq(value, n + 1, Len(value)) # unit THEN Null
        ELSE IF ~IsDigits(whole) \/ (dot # 0 /\ ~IsDigits(frac)) THEN Null
        ELSE Ratio(DigitsValue(whole \o frac), Pow10(Len(frac)))

\* LayoutCalculator.parseValue: px as written, vw of a 1920px viewport, % of a
\* 1200px container, null for anything else.
parseValue(value) ==
    LET pxMatch == ParseNumberWithUnit(value, <<"p", "x">>)
        vwMatch == ParseNumberWithUnit(value, <<"v", "w">>)
        pctMatch == ParseNumberWithUnit(value, <<"%">>)
    IN  IF value = <<>> THEN Null
        ELSE IF ~pxMatch.null THEN pxMatch
        ELSE IF ~vwMatch.null THEN Ratio(vwMatch.num * 1920, vwMatch.den * 100)
        ELSE IF ~pctMatch.null THEN Ratio(pctMatch.num * 1200, pctMatch.den * 100)
        ELSE Null

\* parseValue(issue.value) || fallback : null and 0 both give the fallback.
OrDefault(parsedValue, fallback) ==
    IF parsedValue.null \/ parsedValue.num = 0 THEN Ratio(fallback, 1) ELSE parsedValue

\* FixedDimensionsGenerator.renderFixedBox
renderFixedBox(elementWidth, containerWidth) ==
    LET scale == 20
        boxWidth == elementWidth.num \div (elementWidth.den * scale)
        viewportWidth == containerWidth \div scale
        overflow == boxWidth > viewportWidth
        visibleWidth == Min(boxWidth, viewportWidth)
        overflowWidth == IF overflow THEN boxWidth - viewportWidth ELSE 0
    IN  << Indent(CHARS.TOP_LEFT) \o Rep(CHARS.H_LINE, viewportWidth) \o <<CHARS.TOP_RIGHT>>,
           Indent(CHARS.V_LINE) \o Rep(CHARS.SOLID, visibleWidth)
              \o (IF overflow
                  THEN Rep(CHARS.MEDIUM, Min(overflowWidth, 3)) \o <<CHARS.RIGHT>>
                  ELSE <<CHARS.V_LINE>>),
           Indent(CHARS.BOTTOM_LEFT) \o Rep(CHARS.H_LINE, viewportWidth)
              \o <<CHARS.BOTTOM_RIGHT>> >>

\* FixedDimensionsGenerator.renderResponsiveBox
renderResponsiveBox(containerWidth) ==
    LET boxWidth == containerWidth \div 20 IN
    << Indent(CHARS.TOP_LEFT) \o Rep(CHARS.H_LINE, boxWidth) \o <<CHARS.TOP_RIGHT>>,
       Indent(CHARS.V_LINE) \o Rep(CHARS.SOLID, boxWidth) \o <<CHARS.V_LINE>>,
       Indent(CHARS.BOTTOM_LEFT) \o Rep(CHARS.H_LINE, boxWidth) \o <<CHARS.BOTTOM_RIGHT>> >>

\* NowrapFixedGenerator.renderNowrapOverflow
renderNowrapOverflow ==
    LET containerWidth == 16 IN
    << Indent(CHARS.TOP_LEFT) \o Rep(CHARS.H_LINE, containerWidth) \o <<CHARS.TOP_RIGHT>>,
       Indent(CHARS.V_LINE) \o <<"L", "o", "n", "g", " ", "t", "e", "x", "t", " ", "c", "o", "n", "t", "e">> \o <<CHARS.ELLIPSIS, CHARS.RIGHT>>,
       Indent(CHARS.BOTTOM_LEFT) \o Rep(CHARS.H_LINE, containerWidth)
          \o <<CHARS.BOTTOM_RIGHT>> >>

\* NowrapFixedGenerator.renderWrappedText
renderWrappedText ==
    LET containerWidth == 16 IN
    << Indent(CHARS.TOP_LEFT) \o Rep(CHARS.H_LINE, containerWidth) \o <<CHARS.TOP_RIGHT>>,
       Indent(CHARS.V_LINE) \o <<"L", "o", "n", "g", " ", "t", "e", "x", "t", " ", "c", "o", "n", "t", "e">> \o <<CHARS.V_LINE>>,
       Indent(CHARS.V_LINE) \o <<"n", "t", " ", "w", "r", "a", "p", "s", " ", "h", "e", "r", "e", " ", " ">> \o <<CHARS.V_LINE>>,
       Indent(CHARS.BOTTOM_LEFT) \o Rep(CHARS.H_LINE, containerWidth)
          \o <<CHARS.BOTTOM_RIGHT>> >>

\* FlexFragilityGenerator.renderRigidFlex
renderRigidFlex ==
    LET containerWidth == 18
        itemWidth == 6
    IN  << Indent(CHARS.TOP_LEFT) \o Rep(CHARS.H_LINE, containerWidth) \o <<CHARS.TOP_RIGHT>>,
           Indent(CHARS.V_LINE) \o Rep(CHARS.SOLID, itemWidth) \o <<" ">>
              \o Rep(CHARS.SOLID, itemWidth) \o <<" ">>
              \o Rep(CHARS.SOLID, Min(itemWidth, containerWidth - 14))
              \o <<CHARS.RIGHT>>,
           Indent(CHARS.BOTTOM_LEFT) \o Rep(CHARS.H_LINE, containerWidth)
              \o <<CHARS.BOTTOM_RIGHT>> >>

\* FlexFragilityGenerator.renderFlexibleFlex
renderFlexibleFlex ==
    LET containerWidth == 18
        itemWidth == 6
    IN  << Indent(CHARS.TOP_LEFT) \o Rep(CHARS.H_LINE, containerWidth) \o <<CHARS.TOP_RIGHT>>,
           Indent(CHARS.V_LINE) \o Rep(CHARS.SOLID, itemWidth) \o <<" ">>
              \o Rep(CHARS.SOLID, itemWidth)
              \o Rep(" ", containerWidth - 13) \o <<CHARS.V_LINE>>,
           Indent(CHARS.V_LINE) \o Rep(CHARS.SOLID, itemWidth)
              \o Rep(" ", containerWidth - itemWidth) \o <<CHARS.V_LINE>>,
           Indent(CHARS.BOTTOM_LEFT) \o Rep(CHARS.H_LINE, containerWidth)
              \o <<CHARS.BOTTOM_RIGHT>> >>

\* GridRigidityGenerator.renderRigidGrid
renderRigidGrid ==
    LET containerWidth == 18
        colWidth == 5
    IN  << Indent(CHARS.TOP_LEFT) \o Rep(CHARS.H_LINE, containerWidth) \o <<CHARS.TOP_RIGHT>>,
           Indent(CHARS.V_LINE) \o Rep(CHARS.SOLID, colWidth) \o <<" ">>
              \o Rep(CHARS.SOLID, colWidth) \o <<" ">>
              \o Rep(CHARS.SOLID, colWidth) \o <<CHARS.RIGHT>>,
           Indent(CHARS.BOTTOM_LEFT) \o Rep(CHARS.H_LINE, containerWidth)
              \o <<CHARS.BOTTOM_RIGHT>> >>

\* GridRigidityGenerator.renderResponsiveGrid
renderResponsiveGrid ==
    LET containerWidth == 18
        colWidth == 5
    IN  << Indent(CHARS.TOP_LEFT) \o Rep(CHARS.H_LINE, containerWidth) \o <<CHARS.TOP_RIGHT>>,
           Indent(CHARS.V_LINE) \o Rep(CHARS.SOLID, colWidth) \o <<" ">>
              \o Rep(CHARS.SOLID, colWidth) \o <<" ">>
              \o Rep(CHARS.SOLID, colWidth)
              \o Rep(" ", containerWidth - (colWidth * 3 + 2)) \o <<CHARS.V_LINE>>,
           Indent(CHARS.V_LINE) \o Rep(CHARS.SOLID, colWidth)
              \o Rep(" ", containerWidth - colWidth) \o <<CHARS.V_LINE>>,
           Indent(CHARS.BOTTOM_LEFT) \o Rep(CHARS.H_LINE, containerWidth)
              \o <<CHARS.BOTTOM_RIGHT>> >>

\* MediaInstabilityGenerator.renderUnstableMedia
renderUnstableMedia ==
    << <<" ", " ", "M", "o", "b", "i", "l", "e", " ", "3", "7", "5", "p", "x">>,
       Indent(CHARS.TOP_LEFT) \o Rep(CHARS.H_LINE, 7) \o <<CHARS.TOP_RIGHT>>,
       Indent(CHARS.V_LINE) \o Rep(CHARS.SOLID, 7) \o <<CHARS.RIGHT>> \o <<" ", "b", "r", "e", "a", "k", "s">>,
       Indent(CHARS.BOTTOM_LEFT) \o Rep(CHARS.H_LINE, 7) \o <<CHARS.BOTTOM_RIGHT>> >>

\* MediaInstabilityGenerator.renderStableMedia
renderStableMedia ==
    << <<" ", " ", "M", "o", "b", "i", "l", "e", " ", "3", "7", "5", "p", "x">>,
       Indent(CHARS.TOP_LEFT) \o Rep(CHARS.H_LINE, 7) \o <<CHARS.TOP_RIGHT>>,
       Indent(CHARS.V_LINE) \o Rep(CHARS.SOLID, 7) \o <<CHARS.V_LINE>> \o <<" ", "s", "t", "a", "b", "l", "e">>,
       Indent(CHARS.BOTTOM_LEFT) \o Rep(CHARS.H_LINE, 7) \o <<CHARS.BOTTOM_RIGHT>> >>

\* OverflowMaskingGenerator.renderMaskedOverflow
renderMaskedOverflow ==
    LET vpWidth == 20 IN
    << <<" ", " ", "b", "o", "d", "y", " ", "{">>,
       Indent(CHARS.TOP_LEFT) \o Rep(CHARS.H_LINE, vpWidth) \o <<CHARS.TOP_RIGHT>>,
       Indent(CHARS.V_LINE) \o Rep(CHARS.SOLID, vpWidth) \o <<CHARS.V_LINE>>,
       Indent(CHARS.V_LINE) \o Rep(CHARS.LIGHT, vpWidth) \o <<CHARS.ELLIPSIS>>
          \o <<" ", "h", "i", "d", "d", "e", "n">>,
       Indent(CHARS.BOTTOM_LEFT) \o Rep(CHARS.H_LINE, vpWidth) \o <<CHARS.BOTTOM_RIGHT>>,
       <<" ", " ", "}">> >>

\* OverflowMaskingGenerator.renderVisibleOverflow
renderVisibleOverflow ==
    LET vpWidth == 20 IN
    << <<" ", " ", "b", "o", "d", "y", " ", "{">>,
       Indent(CHARS.TOP_LEFT) \o Rep(CHARS.H_LINE, vpWidth) \o <<CHARS.TOP_RIGHT>>,
       Indent(CHARS.V_LINE) \o Rep(CHARS.SOLID, vpWidth) \o <<CHARS.V_LINE>>,
       Indent(CHARS.V_LINE) \o Rep(CHARS.SOLID, vpWidth) \o <<CHARS.V_LINE>>,
       Indent(CHARS.BOTTOM_LEFT) \o Rep(CHARS.H_LINE, vpWidth) \o <<CHARS.BOTTOM_RIGHT>>,
       <<" ", " ", "}">> >>

\* BreakpointExceededGenerator.renderExceededBreakpoint
renderExceededBreakpoint ==
    LET breakpointWidth == 12
        contentWidth == 16
    IN  << <<" ", " ", "@", "m", "e", "d", "i", "a", " ", "(", "m", "a", "x", ":", " ", "7", "6", "8", "p", "x", ")">>,
           Indent(CHARS.TOP_LEFT) \o Rep(CHARS.H_LINE, breakpointWidth)
              \o <<CHARS.TOP_RIGHT>>,
           Indent(CHARS.V_LINE) \o Rep(CHARS.SOLID, breakpointWidth)
              \o Rep(CHARS.MEDIUM, Min(contentWidth - breakpointWidth, 3))
              \o <<CHARS.RIGHT>>,
           Indent(CHARS.BOTTOM_LEFT) \o Rep(CHARS.H_LINE, breakpointWidth)
              \o <<CHARS.BOTTOM_RIGHT>> >>

\* BreakpointExceededGenerator.renderAdjustedBreakpoint
renderAdjustedBreakpoint ==
    LET breakpointWidth == 16 IN
    << <<" ", " ", "@", "m", "e", "d", "i", "a", " ", "(", "m", "a", "x", ":", " ", "1", "0", "2", "4", "p", "x", ")">>,
       Indent(CHARS.TOP_LEFT) \o Rep(CHARS.H_LINE, breakpointWidth) \o <<CHARS.TOP_RIGHT>>,
       Indent(CHARS.V_LINE) \o Rep(CHARS.SOLID, breakpointWidth) \o <<CHARS.V_LINE>>,
       Indent(CHARS.BOTTOM_LEFT) \o Rep(CHARS.H_LINE, breakpointWidth)
          \o <<CHARS.BOTTOM_RIGHT>> >>

\* AbsoluteRigidityGenerator.renderAbsolutePositioning
renderAbsolutePositioning ==
    LET containerWidth == 18
        elementWidth == 6
    IN  << Indent(CHARS.TOP_LEFT) \o Rep(CHARS.H_LINE, containerWidth) \o <<CHARS.TOP_RIGHT>>,
           Indent(CHARS.V_LINE) \o Rep(" ", containerWidth) \o <<CHARS.V_LINE>>,
           Indent(CHARS.V_LINE) \o Rep(" ", 10) \o Rep(CHARS.SOLID, elementWidth)
              \o Rep(" ", containerWidth - 10 - elementWidth) \o <<CHARS.V_LINE>>,
           Indent(CHARS.V_LINE) \o Rep(" ", containerWidth) \o <<CHARS.V_LINE>>,
           Indent(CHARS.BOTTOM_LEFT) \o Rep(CHARS.H_LINE, containerWidth)
              \o <<CHARS.BOTTOM_RIGHT>> >>

\* AbsoluteRigidityGenerator.renderFlexiblePositioning
renderFlexiblePositioning ==
    LET containerWidth == 18
        elementWidth == 6
    IN  << Indent(CHARS.TOP_LEFT) \o Rep(CHARS.H_LINE, containerWidth) \o <<CHARS.TOP_RIGHT>>,
           Indent(CHARS.V_LINE) \o Rep(" ", containerWidth) \o <<CHARS.V_LINE>>,
           Indent(CHARS.V_LINE) \o Rep(" ", 6) \o Rep(CHARS.SOLID, elementWidth)
              \o Rep(" ", containerWidth - 6 - elementWidth) \o <<CHARS.V_LINE>>,
           Indent(CHARS.V_LINE) \o Rep(" ", containerWidth) \o <<CHARS.V_LINE>>,
           Indent(CHARS.BOTTOM_LEFT) \o Rep(CHARS.H_LINE, containerWidth)
              \o <<CHARS.BOTTOM_RIGHT>> >>

\* BoxInconsistencyGenerator.renderContentBox
renderContentBox ==
    LET contentWidth == 12
        padding == 2
        totalWidth == contentWidth + (padding * 2)
    IN  << Indent(CHARS.TOP_LEFT) \o Rep(CHARS.H_LINE, totalWidth)
              \o <<CHARS.TOP_RIGHT, CHARS.RIGHT>>,
           Indent(CHARS.V_LINE) \o Rep(CHARS.LIGHT, totalWidth) \o <<CHARS.V_LINE>>,
           Indent(CHARS.V_LINE) \o Rep(CHARS.LIGHT, padding)
              \o Rep(CHARS.SOLID, contentWidth) \o Rep(CHARS.LIGHT, padding)
              \o <<CHARS.V_LINE>>,
           Indent(CHARS.V_LINE) \o Rep(CHARS.LIGHT, totalWidth) \o <<CHARS.V_LINE>>,
           Indent(CHARS.BOTTOM_LEFT) \o Rep(CHARS.H_LINE, totalWidth)
              \o <<CHARS.BOTTOM_RIGHT, CHARS.RIGHT>> >>

\* BoxInconsistencyGenerator.renderBorderBox
renderBorderBox ==
    LET totalWidth == 12
        padding == 2
        contentWidth == totalWidth - (padding * 2)
    IN  << Indent(CHARS.TOP_LEFT) \o Rep(CHARS.H_LINE, totalWidth) \o <<CHARS.TOP_RIGHT>>,
           Indent(CHARS.V_LINE) \o Rep(CHARS.LIGHT, totalWidth) \o <<CHARS.V_LINE>>,
           Indent(CHARS.V_LINE) \o Rep(CHARS.LIGHT, padding)
              \o Rep(CHARS.SOLID, contentWidth) \o Rep(CHARS.LIGHT, padding)
              \o <<CHARS.V_LINE>>,
           Indent(CHARS.V_LINE) \o Rep(CHARS.LIGHT, totalWidth) \o <<CHARS.V_LINE>>,
           Indent(CHARS.BOTTOM_LEFT) \o Rep(CHARS.H_LINE, totalWidth)
              \o <<CHARS.BOTTOM_RIGHT>> >>

\* The generator modules that do not load: in each of them statements follow
\* the closing brace of generate() inside the class body, so require() of the
\* module throws a SyntaxError and the class is never defined.
BrokenModules == {"viewport-overflow", "fixed-spacing", "overflow-horizontal"}

\* AsciiVisualizer.registerGeneratorFactories: the types that have a factory.
BuiltinTypes ==
    {"fixed-dimensions", "viewport-overflow", "flex-fragility", "grid-rigidity",
     "fixed-spacing", "media-instability", "overflow-masking", "breakpoint-exceeded",
     "absolute-rigidity", "box-inconsistency", "overflow-horizontal", "nowrap-fixed"}

\* generate(issue) of the generator class the factory of a type constructs.
GeneratorGenerate(type, issue) ==
    CASE type = "fixed-dimensions" ->
            generateStandardVisualization(issue, <<"F", "i", "x", "e", "d", " ", "D", "i", "m", "e", "n", "s", "i", "o", "n", "s">>,
                renderFixedBox(OrDefault(parseValue(issue.value), 600), 400),
                renderResponsiveBox(400))
      [] type = "nowrap-fixed" ->
            generateStandardVisualization(issue, <<"N", "o", "w", "r", "a", "p", " ", "F", "i", "x", "e", "d">>,
                renderNowrapOverflow, renderWrappedText)
      [] type = "flex-fragility" ->
            generateStandardVisualization(issue, <<"F", "l", "e", "x", " ", "F", "r", "a", "g", "i", "l", "i", "t", "y">>,
                renderRigidFlex, renderFlexibleFlex)
      [] type = "grid-rigidity" ->
            generateStandardVisualization(issue, <<"G", "r", "i", "d", " ", "R", "i", "g", "i", "d", "i", "t", "y">>,
                renderRigidGrid, renderResponsiveGrid)
      [] type = "media-instability" ->
            generateStandardVisualization(issue, <<"M", "e", "d", "i", "a", " ", "I", "n", "s", "t", "a", "b", "i", "l", "i", "t", "y">>,
                renderUnstableMedia, renderStableMedia)
      [] type = "overflow-masking" ->
            generateStandardVisualization(issue, <<"O", "v", "e", "r", "f", "l", "o", "w", " ", "M", "a", "s", "k", "i", "n", "g">>,
                renderMaskedOverflow, renderVisibleOverflow)
      [] type = "breakpoint-exceeded" ->
            generateStandardVisualization(issue, <<"B", "r", "e", "a", "k", "p", "o", "i", "n", "t", " ", "E", "x", "c", "e", "e", "d", "e", "d">>,
                renderExceededBreakpoint, renderAdjustedBreakpoint)
      [] type = "absolute-rigidity" ->
            generateStandardVisualization(issue, <<"A", "b", "s", "o", "l", "u", "t", "e", " ", "R", "i", "g", "i", "d", "i", "t", "y">>,
                renderAbsolutePositioning, renderFlexiblePositioning)
      [] type = "box-inconsistency" ->
            generateStandardVisualization(issue, <<"B", "o", "x", " ", "I", "n", "c", "o", "n", "s", "i", "s", "t", "e", "n", "c", "y">>,
                renderContentBox, renderBorderBox)

\* ---------- ASCII visualizer: the issues drawn ----------

LineNumber(n) == [type |-> "number", n |-> n]
LineUndefined == [type |-> "undefined", n |-> 0]

\* Payloads drawn with every type: a short value and suggestion that fit their
\* columns, texts that fill the columns exactly, and texts one character longer.
CommonPayloads ==
    { [severity |-> "critical", line |-> LineNumber(42), selector |-> <<".", "c", "a", "r", "d">>,
       property |-> <<"w", "i", "d", "t", "h">>, value |-> <<"6", "0", "0", "p", "x">>,
       suggestion |-> <<"m", "a", "x", "-", "w", "i", "d", "t", "h", ":", " ", "1", "0", "0", "%">>],
      [severity |-> "low", line |-> LineNumber(1200), selector |-> <<".", "a">>,
       property |-> <<"w", "i", "d", "t", "h">>, value |-> <<"c", "a", "l", "c", "(", "1", "0", "0", "%", " ", "-", " ", "2", "0", "p", "x", ")">>,
       suggestion |-> <<"U", "s", "e", " ", "m", "i", "n", "(", "1", "0", "0", "%", ",", " ", "6", "0", "0", "p", "x", ")", " ", "h", "e", "r", "e">>],
      [severity |-> "low", line |-> LineNumber(3), selector |-> <<".", "a">>,
       property |-> <<"w", "i", "d", "t", "h">>, value |-> <<"c", "a", "l", "c", "(", "1", "0", "0", "%", " ", "-", " ", "2", "0", "0", "p", "x", ")">>,
       suggestion |-> <<"U", "s", "e", " ", "m", "i", "n", "(", "1", "0", "0", "%", ",", " ", "6", "0", "0", "p", "x", ")", " ", "t", "h", "e", "r", "e">>] }

\* Payloads drawn with two of the built-in types and with the types that have
\* no factory: the suggestion the lint engine attaches to a fixed width, a
\* value of characters beyond the BMP, a value of line breaks, an emoji with
\* its variation selector, the first payload above on another line, an unknown
\* severity with no suggestion, and issues with a required field missing.
SpecialPayloads ==
    { [severity |-> "medium", line |-> LineNumber(7), selector |-> <<".", "a">>,
       property |-> <<"w", "i", "d", "t", "h">>, value |-> <<"5", "0", ".", "5", "v", "w">>,
       suggestion |-> <<"U", "s", "e", " ", "r", "e", "l", "a", "t", "i", "v", "e", " ", "u", "n", "i", "t", "s", " ", "o", "r", " ", "m", "a", "x", "-", "w", "i", "d", "t", "h">>],
      [severity |-> "critical", line |-> LineNumber(3), selector |-> <<".", "a">>,
       property |-> <<"w", "i", "d", "t", "h">>, value |-> Rep("U+1D49C", 30),
       suggestion |-> <<"m", "a", "x", "-", "w", "i", "d", "t", "h", ":", " ", "1", "0", "0", "%">>],
      [severity |-> "critical", line |-> LineNumber(3), selector |-> <<".", "a">>,
       property |-> <<"w", "i", "d", "t", "h">>, value |-> Rep("\n", 12),
       suggestion |-> <<"m", "a", "x", "-", "w", "i", "d", "t", "h", ":", " ", "1", "0", "0", "%">>],
      [severity |-> "medium", line |-> LineNumber(3), selector |-> <<".", "a">>,
       property |-> <<"w", "i", "d", "t", "h">>, value |-> <<"U+26A0", "U+FE0F", "U+1F600">> \o <<"8", "p", "x">>,
       suggestion |-> <<"m", "a", "x", "-", "w", "i", "d", "t", "h", ":", " ", "1", "0", "0", "%">>],
      [severity |-> "critical", line |-> LineNumber(43), selector |-> <<".", "c", "a", "r", "d">>,
       property |-> <<"w", "i", "d", "t", "h">>, value |-> <<"6", "0", "0", "p", "x">>,
       suggestion |-> <<"m", "a", "x", "-", "w", "i", "d", "t", "h", ":", " ", "1", "0", "0", "%">>],
      [severity |-> "info", line |-> LineNumber(0 - 1), selector |-> <<".", "a">>,
       property |-> <<"h", "e", "i", "g", "h", "t">>, value |-> <<"1", "0", "0", "%">>, suggestion |-> <<>>],
      [severity |-> "critical", line |-> LineUndefined, selector |-> <<".", "a">>,
       property |-> <<"w", "i", "d", "t", "h">>, value |-> <<"6", "0", "0", "p", "x">>, suggestion |-> <<>>],
      [severity |-> "critical", line |-> LineNumber(1), selector |-> <<".", "a">>,
       property |-> <<"w", "i", "d", "t", "h">>, value |-> <<>>, suggestion |-> <<>>],
      [severity |-> "", line |-> LineNumber(1), selector |-> <<".", "a">>,
       property |-> <<"w", "i", "d", "t", "h">>, value |-> <<"6", "0", "0", "p", "x">>, suggestion |-> <<>>],
      [severity |-> "critical", line |-> LineNumber(1), selector |-> <<>>,
       property |-> <<"w", "i", "d", "t", "h">>, value |-> <<"6", "0", "0", "p", "x">>, suggestion |-> <<>>],
      [severity |-> "critical", line |-> LineNumber(1), selector |-> <<".", "a">>,
       property |-> <<>>, value |-> <<"6", "0", "0", "p", "x">>, suggestion |-> <<>>] }

VizTypes == BuiltinTypes \cup {"custom-type", "error-type", ""}

VizIssue(t, p) ==
    [type |-> t, severity |-> p.severity, line |-> p.line, selector |-> p.selector,
     property |-> p.property, value |-> p.value, suggestion |-> p.suggestion]

\* ---------- presentation: Issue to VisualizerIssue ----------

\* The typeMap literal that the three copies of mapToVisualizerIssue share.
TypeMap ==
    ("Fixed width" :> "fixed-dimensions") @@
    ("Fixed height" :> "fixed-dimensions") @@
    ("Fixed box dimensions" :> "fixed-dimensions") @@
    ("Fixed minimum dimension" :> "fixed-dimensions") @@
    ("Viewport width overflow" :> "viewport-overflow") @@
    ("Horizontal overflow risk" :> "overflow-horizontal") @@
    ("Cumulative horizontal overflow" :> "overflow-horizontal") @@
    ("No-wrap fixed width" :> "nowrap-fixed") @@
    ("Non-wrapping fixed flex basis" :> "flex-fragility") @@
    ("Flex container without wrap" :> "flex-fragility") @@
    ("Rigid flex item" :> "flex-fragility") @@
    ("Rigid grid tracks" :> "grid-rigidity") @@
    ("Fixed pixel spacing" :> "fixed-spacing") @@
    ("Media query instability" :> "media-instability") @@
    ("Body overflow masking" :> "overflow-masking") @@
    ("Fixed width exceeds breakpoint" :> "breakpoint-exceeded") @@
    ("Absolute positioning rigidity" :> "absolute-rigidity") @@
    ("Mixed box-sizing" :> "box-inconsistency")

\* typeMap[issue.issue]: None where the literal has no such key or holds null.
\* The literal of the stats model also holds 'Layout property with
\* !important': null, which reads the same as a missing key.
TypeOf(name) == IF name \in DOMAIN TypeMap THEN TypeMap[name] ELSE None

\* type.includes('flex') ? 'flex' : type.includes('grid') ? 'grid' :
\* type.includes('overflow') ? 'overflow' : 'other', on the type names.
getCategoryFromType(type) ==
    CASE type = "flex-fragility" -> "flex"
      [] type = "grid-rigidity" -> "grid"
      [] type \in {"viewport-overflow", "overflow-horizontal", "overflow-masking"} ->
            "overflow"
      [] OTHER -> "other"

\* a || b on texts: the empty text is falsy.
OrText(a, b) == IF a # <<>> THEN a ELSE b

\* The object literal the three copies return for a type.
VisualizerIssueOf(type, issue) ==
    [type |-> type,
     severity |-> IF issue.severity # "" THEN issue.severity ELSE "medium",
     line |-> IF issue.lineNumber.type = "number" /\ issue.lineNumber.n # 0
              THEN issue.lineNumber ELSE LineNumber(0),
     selector |-> OrText(issue.selector, <<"e", "l", "e", "m", "e", "n", "t">>),
     property |-> OrText(issue.property, <<"w", "i", "d", "t", "h">>),
     value |-> OrText(issue.value, <<"6", "0", "0", "p", "x">>),
     suggestion |-> OrText(issue.correction, OrText(issue.suggestion, <<"U", "s", "e", " ", "r", "e", "s", "p", "o", "n", "s", "i", "v", "e", " ", "u", "n", "i", "t", "s">>)),
     category |-> getCategoryFromType(type)]

\* The null that the stats model returns for an issue without a diagram.
NullVisualizerIssue ==
    [type |-> None, severity |-> "", line |-> LineUndefined, selector |-> <<>>,
     property |-> <<>>, value |-> <<>>, suggestion |-> <<>>, category |-> None]

\* mapToVisualizerIssue of the stats model
StatsMapToVisualizerIssue(issue) ==
    LET type == TypeOf(issue.issue) IN
    IF type = None THEN NullVisualizerIssue ELSE VisualizerIssueOf(type, issue)

\* HoverProvider.mapToVisualizerIssue
HoverMapToVisualizerIssue(issue) ==
    LET type == IF TypeOf(issue.issue) # None THEN TypeOf(issue.issue)
                ELSE "fixed-dimensions"
    IN  VisualizerIssueOf(type, issue)

\* LintEngine.mapToVisualizerIssue
LintMapToVisualizerIssue(issue) ==
    LET type == IF TypeOf(issue.issue) # None THEN TypeOf(issue.issue)
                ELSE "fixed-dimensions"
    IN  VisualizerIssueOf(type, issue)

\* The issues presented: every kind that has a diagram type, the kind of the
\* !important detector, a label no detector emits, each with all its fields,
\* with none of them, and with a correction next to the suggestion.
PresentLabels ==
    DOMAIN TypeMap \cup {"Layout property with !important", "Unknown issue"}

PresentPayloads ==
    { [severity |-> "critical", lineNumber |-> LineNumber(12), selector |-> <<".", "c", "a", "r", "d">>,
       property |-> <<"w", "i", "d", "t", "h">>, value |-> <<"8", "0", "0", "p", "x">>, correction |-> <<>>,
       suggestion |-> <<"U", "s", "e", " ", "m", "a", "x", "-", "w", "i", "d", "t", "h">>],
      [severity |-> "", lineNumber |-> LineUndefined, selector |-> <<>>,
       property |-> <<>>, value |-> <<>>, correction |-> <<>>, suggestion |-> <<>>],
      [severity |-> "Critical", lineNumber |-> LineNumber(0), selector |-> <<".", "c", "a", "r", "d">>,
       property |-> <<"w", "i", "d", "t", "h">>, value |-> <<"8", "0", "0", "p", "x">>, correction |-> <<"m", "a", "x", "-", "w", "i", "d", "t", "h", ":", " ", "1", "0", "0", "%">>,
       suggestion |-> <<"U", "s", "e", " ", "m", "a", "x", "-", "w", "i", "d", "t", "h">>] }

PresentIssue(name, p) ==
    [issue |-> name, severity |-> p.severity, lineNumber |-> p.lineNumber,
     selector |-> p.selector, property |-> p.property, value |-> p.value,
     correction |-> p.correction, suggestion |-> p.suggestion]

PresentIssues == { PresentIssue(name, p) : name \in PresentLabels, p \in PresentPayloads }

\* The issues of a batch handed to buildStatsModel: of a kind whose generator
\* loads, of a kind whose generator module fails to load, of the kind that
\* maps to null, and of an unknown kind.
BatchLabels ==
    {"Fixed width", "Viewport width overflow", "Layout property with !important",
     "Unknown issue"}

BatchIssues ==
    { PresentIssue(name, p) : name \in BatchLabels,
                              p \in {q \in PresentPayloads : q.severity = "critical"} }

\* No issue at all: the argument of generate(undefined).
NoIssue ==
    [type |-> "", severity |-> "", line |-> LineUndefined, selector |-> <<>>,
     property |-> <<>>, value |-> <<>>, suggestion |-> <<>>]

VizIssues ==
    { VizIssue(t, p) : t \in VizTypes, p \in CommonPayloads }
    \cup
    { VizIssue(t, p) : t \in {"fixed-dimensions", "overflow-masking", "custom-type",
                              "error-type"},
                      p \in SpecialPayloads }
    \cup {NoIssue}

ErrorMessages == {<<"T", "e", "s", "t", " ", "e", "r", "r", "o", "r">>, Rep("e", 60)}

\* generate() of a built-in generator is a function of the issue alone: the
\* diagram of every issue above, and of every issue a batch of the stats
\* model maps to, whose type has a generator class that loads.
BuiltinDiagrams ==
    [issue \in {i \in VizIssues \cup {StatsMapToVisualizerIssue(b) : b \in BatchIssues} :
                    i.type \in BuiltinTypes \ BrokenModules} |->
        GeneratorGenerate(issue.type, issue)]

\* ---------- ASCII visualizer: AsciiVisualizer ----------

\* The text of the type names that have no factory.
TypeText ==
    ("custom-type" :> <<"c", "u", "s", "t", "o", "m", "-", "t", "y", "p", "e">>) @@ ("error-type" :> <<"e", "r", "r", "o", "r", "-", "t", "y", "p", "e">>)
        @@ ("" :> <<>>)

\* A validation that does not look at the line.
isValidIssueAnyLine(issue) ==
    /\ issue # NoIssue
    /\ issue.type # ""
    /\ issue.severity # ""
    /\ issue.selector # <<>>
    /\ issue.property # <<>>
    /\ issue.value # <<>>

\* AsciiVisualizer.isValidIssue.  issue.line is [type, n]: typeof and number.
isValidIssue(issue) ==
    /\ issue # NoIssue
    /\ issue.type # ""
    /\ issue.severity # ""
    /\ issue.line.type = "number"
    /\ issue.selector # <<>>
    /\ issue.property # <<>>
    /\ issue.value # <<>>

\* AsciiVisualizer.generateFallback
generateFallback(issue) ==
    LET ascii == <<"[">> \o TypeText[issue.type] \o <<"]", " ", "v", "i", "s", "u", "a", "l", "i", "z", "a", "t", "i", "o", "n", " ", "n", "o", "t", " ", "a", "v", "a", "i", "l", "a", "b", "l", "e">>
    IN  [ascii |-> ascii, width |-> Length(ascii), height |-> 1]

\* AsciiVisualizer.padLine, for a text of BMP characters, where substring's
\* code units are whole characters.
padLine(text, width) ==
    The({ IF Length(t) >= width
          THEN SubSeq(t, 1, width - 1) \o <<"U+2026">>
          ELSE t \o Rep(" ", width - Length(t)) : t \in {text} })

\* AsciiVisualizer.generateErrorVisualization
generateErrorVisualization(message) ==
    LET lines ==
          << <<"U+250C">> \o Rep("U+2500", 56) \o <<"U+2510">>,
             <<"U+2502", " ", "U+26A0", "U+FE0F", " ", " ">> \o <<"V", "i", "s", "u", "a", "l", "i", "z", "a", "t", "i", "o", "n", " ", "E", "r", "r", "o", "r">>
                \o Rep(" ", 32) \o <<"U+2502">>,
             <<"U+251C">> \o Rep("U+2500", 56) \o <<"U+2524">>,
             <<"U+2502", " ">> \o padLine(message, 56) \o <<" ", "U+2502">>,
             <<"U+2514">> \o Rep("U+2500", 56) \o <<"U+2518">> >>
    IN  [ascii |-> Join(lines, "\n"), width |-> 60, height |-> 5]

\* A generator instance: one a factory constructed, or one handed to
\* registerGenerator whose generate() throws new Error(message).
BuiltinInstance == [class |-> "builtin", message |-> <<>>]
ErrorGenerator(message) == [class |-> "ErrorGenerator", message |-> message]

NoVisualization == [ascii |-> <<>>, width |-> 0, height |-> 0]

\* The generatorInstances of a new AsciiVisualizer.
NoInstances == [t \in {} |-> BuiltinInstance]

\* A generate that draws the diagram of a type only on the call that constructs
\* its generator.
generateOnce(instances, issue) ==
    LET type == issue.type
        needsFactory == type \notin DOMAIN instances /\ type \in BuiltinTypes
        after == IF needsFactory
                 THEN [t \in DOMAIN instances \cup {type} |->
                          IF t = type THEN BuiltinInstance ELSE instances[t]]
                 ELSE instances
    IN  IF ~isValidIssue(issue)
        THEN [instances |-> instances, outcome |-> "returned", invoked |-> FALSE,
              result |-> generateErrorVisualization(<<"I", "n", "v", "a", "l", "i", "d", " ", "i", "s", "s", "u", "e", " ", "d", "a", "t", "a">>)]
        ELSE IF needsFactory /\ type \in BrokenModules
        THEN [instances |-> instances, outcome |-> "thrown", invoked |-> FALSE,
              result |-> NoVisualization]
        ELSE IF type \notin DOMAIN after
        THEN [instances |-> after, outcome |-> "returned", invoked |-> FALSE,
              result |-> generateFallback(issue)]
        ELSE IF after[type].class = "ErrorGenerator"
        THEN [instances |-> after, outcome |-> "returned", invoked |-> TRUE,
              result |-> generateErrorVisualization(
                            <<"G", "e", "n", "e", "r", "a", "t", "i", "o", "n", " ", "f", "a", "i", "l", "e", "d", ":", " ">> \o after[type].message)]
        ELSE IF ~needsFactory
        THEN [instances |-> after, outcome |-> "returned", invoked |-> FALSE,
              result |-> generateFallback([issue EXCEPT !.type = ""])]
        ELSE [instances |-> after, outcome |-> "returned", invoked |-> TRUE,
              result |-> BuiltinDiagrams[issue]]

\* What a call of generate(issue) does with the instances it finds: the
\* instances it leaves, whether it returns or throws, whether it called the
\* generate() of a generator, and the visualization it returns.  The factory call stands before the try block, so a factory
\* that throws ends the call with the exception.
generate(instances, issue) ==
    LET type == issue.type
        needsFactory == type \notin DOMAIN instances /\ type \in BuiltinTypes
        after == IF needsFactory
                 THEN [t \in DOMAIN instances \cup {type} |->
                          IF t = type THEN BuiltinInstance ELSE instances[t]]
                 ELSE instances
    IN  IF ~isValidIssue(issue)
        THEN [instances |-> instances, outcome |-> "returned", invoked |-> FALSE,
              result |-> generateErrorVisualization(<<"I", "n", "v", "a", "l", "i", "d", " ", "i", "s", "s", "u", "e", " ", "d", "a", "t", "a">>)]
        ELSE IF needsFactory /\ type \in BrokenModules
        THEN [instances |-> instances, outcome |-> "thrown", invoked |-> FALSE,
              result |-> NoVisualization]
        ELSE IF type \notin DOMAIN after
        THEN [instances |-> after, outcome |-> "returned", invoked |-> FALSE,
              result |-> generateFallback(issue)]
        ELSE IF after[type].class = "ErrorGenerator"
        THEN [instances |-> after, outcome |-> "returned", invoked |-> TRUE,
              result |-> generateErrorVisualization(
                            <<"G", "e", "n", "e", "r", "a", "t", "i", "o", "n", " ", "f", "a", "i", "l", "e", "d", ":", " ">> \o after[type].message)]
        ELSE [instances |-> after, outcome |-> "returned", invoked |-> TRUE,
              result |-> BuiltinDiagrams[issue]]

\* The factories alone.
getFactoryTypes(instances) == BuiltinTypes

\* AsciiVisualizer.getSupportedTypes: the keys of generatorFactories and the
\* keys of generatorInstances.
getSupportedTypes(instances) == BuiltinTypes \cup DOMAIN instances

\* ---------- ASCII visualizer: the calls made ----------

MaxVizCalls == 2

IdleVizOp ==
    [op |-> "init", calls |-> 0, issue |-> NoIssue, outcome |-> "none",
     invoked |-> FALSE, keyRepeated |-> FALSE, result |-> NoVisualization]

\* The call before this generate(issue) was a generate of an issue with the same
\* type, severity and value, the parts of TemplateCache.generateKey, on
\* another line (observer).
KeyRepeated(last, issue) ==
    /\ last.op = "generate"
    /\ last.issue.type = issue.type
    /\ last.issue.severity = issue.severity
    /\ last.issue.value = issue.value
    /\ last.issue.line # issue.line

\* AsciiVisualizer.generate(issue)
Generate(issue) ==
    LET done == generate(generatorInstances, issue) IN
    /\ vizOp.calls < MaxVizCalls
    /\ generatorInstances' = done.instances
    /\ vizOp' = [op |-> "generate", calls |-> vizOp.calls + 1, issue |-> issue,
                 outcome |-> done.outcome, invoked |-> done.invoked,
                 keyRepeated |-> KeyRepeated(vizOp, issue),
                 result |-> done.result]
    /\ UNCHANGED <<cacheVars, engineVars, lintVars, parseVars, presentVars, declVars, detectVars, analyzeVars>>

\* AsciiVisualizer.registerGenerator(type, generator) with a generator whose
\* generate() throws new Error(message).
RegisterGenerator(type, message) ==
    /\ vizOp.calls < MaxVizCalls
    /\ generatorInstances' =
          [t \in DOMAIN generatorInstances \cup {type} |->
              IF t = type THEN ErrorGenerator(message) ELSE generatorInstances[t]]
    /\ vizOp' = [op |-> "registerGenerator", calls |-> vizOp.calls + 1,
                 issue |-> NoIssue, outcome |-> "none", invoked |-> FALSE,
                 keyRepeated |-> FALSE, result |-> NoVisualization]
    /\ UNCHANGED <<cacheVars, engineVars, lintVars, parseVars, presentVars, declVars, detectVars, analyzeVars>>

\* ---------- LintEngine: detectors over the parsed rules ----------

MaxRules == 2

\* A parsed rule: selector, declarations (property name to raw value) and at,
\* the @media block it stands in.
BaseAt == [type |-> "none", condition |-> <<>>]
MediaAt(condition) == [type |-> "media", condition |-> condition]
ParsedRule(selector, declarations, at) ==
    [selector |-> selector, declarations |-> declarations, at |-> at]

\* r.declarations[name], where the empty text also stands for undefined: the
\* value of a declaration without a value is '', and both are falsy.
Decl(r, name) == IF name \in DOMAIN r.declarations THEN r.declarations[name] ELSE <<>>

IsDigit(c) == \E d \in 1..10 : Digits[d] = c

\* \w
IsWordChar(c) ==
    \/ IsDigit(c)
    \/ \E k \in 1..26 : LowerLetters[k] = c \/ UpperLetters[k] = c
    \/ c = "_"

\* \b between positions i - 1 and i of v
WordBoundary(v, i) ==
    (i - 1 >= 1 /\ i - 1 <= Len(v) /\ IsWordChar(v[i - 1]))
        # (i >= 1 /\ i <= Len(v) /\ IsWordChar(v[i]))

\* \d+ matches v[i..j]
AllDigits(v, i, j) == i <= j /\ i >= 1 /\ j <= Len(v) /\ \A k \in i..j : IsDigit(v[k])

\* \s+ matches v[i..j]
AllSpaces(v, i, j) == i <= j /\ i >= 1 /\ j <= Len(v) /\ \A k \in i..j : IsSpace(v[k])

\* px, in either case, stands at positions j and j + 1
PxAt(v, j) ==
    j >= 1 /\ j + 1 <= Len(v) /\ LowerChar(v[j]) = "p" /\ LowerChar(v[j + 1]) = "x"

\* /\b\d+px\b/i.test(v)
HasFixedPx(v) ==
    \E i \in 1..Len(v), j \in 1..Len(v) :
        /\ AllDigits(v, i, j) /\ PxAt(v, j + 1)
        /\ WordBoundary(v, i) /\ WordBoundary(v, j + 3)

\* \d+(?:\.\d+)? matches v[i..j]
NumberAt(v, i, j) ==
    \/ AllDigits(v, i, j)
    \/ \E k \in i..j : AllDigits(v, i, k - 1) /\ v[k] = "." /\ AllDigits(v, k + 1, j)

\* The text a first group captures: v[i..j] for the leftmost i among the
\* matches, the empty text when there is no match.
Captured(v, matches) ==
    IF matches = {} THEN <<>>
    ELSE LET i == SetMin({m[1] : m \in matches})
             j == SetMax({m[2] : m \in {n \in matches : n[1] = i}})
         IN  SubSeq(v, i, j)

\* /(\d+(?:\.\d+)?)px/i.exec(v): m[1], or the empty text for null
FloatPxCapture(v) ==
    Captured(v, {m \in (1..Len(v)) \X (1..Len(v)) :
                    NumberAt(v, m[1], m[2]) /\ PxAt(v, m[2] + 1)})

\* /(\d+)px/i.exec(v): m[1], or the empty text for null
IntPxCapture(v) ==
    Captured(v, {m \in (1..Len(v)) \X (1..Len(v)) :
                    AllDigits(v, m[1], m[2]) /\ PxAt(v, m[2] + 1)})

\* "0 0 <number>px" starts at position a of v with the number at v[i..j]:
\* \b0\s+0\s+ then the number, px and \b.
ShorthandAt(v, a, i, j) ==
    /\ a >= 1 /\ a <= Len(v) /\ v[a] = "0" /\ WordBoundary(v, a)
    /\ \E b \in (a + 2)..(i - 2) :
          AllSpaces(v, a + 1, b - 1) /\ v[b] = "0" /\ AllSpaces(v, b + 1, i - 1)
    /\ PxAt(v, j + 1) /\ WordBoundary(v, j + 3)

\* /\b0\s+0\s+\d+px\b/i.test(v)
HasRigidShorthand(v) ==
    \E a \in 1..Len(v), i \in 1..Len(v), j \in 1..Len(v) :
        ShorthandAt(v, a, i, j) /\ AllDigits(v, i, j)

\* /\b0\s+0\s+(\d+(?:\.\d+)?)px\b/i.exec(v): m[1] of the leftmost match, or
\* the empty text for null
ShorthandCapture(v) ==
    LET matches == {m \in (1..Len(v)) \X (1..Len(v)) \X (1..Len(v)) :
                       ShorthandAt(v, m[1], m[2], m[3]) /\ NumberAt(v, m[2], m[3])}
    IN  IF matches = {} THEN <<>>
        ELSE LET a == SetMin({m[1] : m \in matches})
                 m == CHOOSE n \in matches : n[1] = a
             IN  SubSeq(v, m[2], m[3])

NaN == [kind |-> "NaN", n |-> 0]

\* parseFloat of a captured number, NaN for no capture.  The texts drawn hold
\* whole numbers of px wherever a detector takes parseFloat of them.
ParseFloat(t) == IF IsDigits(t) THEN Num(DigitsValue(t)) ELSE NaN

\* /\b100vw\b/i.test(v)
Has100vw(v) ==
    \E i \in 1..Len(v) :
        /\ i + 4 <= Len(v)
        /\ ToLower(SubSeq(v, i, i + 4)) = <<"1", "0", "0", "v", "w">>
        /\ WordBoundary(v, i) /\ WordBoundary(v, i + 5)

DetectedIssue(name, severity, selector) ==
    [issue |-> name, severity |-> severity, selector |-> selector]

\* A wrap test that also takes flex-wrap: nowrap for a missing flex-wrap.
WrapNotEnabled(r) ==
    \/ Decl(r, <<"f", "l", "e", "x", "-", "w", "r", "a", "p">>) = <<>>
    \/ Includes(ToLower(Decl(r, <<"f", "l", "e", "x", "-", "w", "r", "a", "p">>)), <<"n", "o", "w", "r", "a", "p">>)

\* !wrap
NoWrapDeclared(r) == Decl(r, <<"f", "l", "e", "x", "-", "w", "r", "a", "p">>) = <<>>

\* The issues detectFlexFragility pushes for one rule.
FlexFragilityOfRule(cfg, r) ==
    LET d == Decl(r, <<"d", "i", "s", "p", "l", "a", "y">>)
        wrap == Decl(r, <<"f", "l", "e", "x", "-", "w", "r", "a", "p">>)
        basis == Decl(r, <<"f", "l", "e", "x", "-", "b", "a", "s", "i", "s">>)
        flex == Decl(r, <<"f", "l", "e", "x">>)
        grow == Decl(r, <<"f", "l", "e", "x", "-", "g", "r", "o", "w">>)
        shrink == Decl(r, <<"f", "l", "e", "x", "-", "s", "h", "r", "i", "n", "k">>)
        nowrapNum == IF basis # <<>> THEN ParseFloat(FloatPxCapture(basis))
                     ELSE IF flex # <<>> THEN ParseFloat(ShorthandCapture(flex))
                     ELSE NaN
    IN  IF IsIgnored(cfg, r.selector) THEN <<>>
        ELSE IF ~(d # <<>> /\ Includes(ToLower(d), <<"f", "l", "e", "x">>)) THEN <<>>
        ELSE
          (IF /\ wrap # <<>> /\ Includes(ToLower(wrap), <<"n", "o", "w", "r", "a", "p">>)
              /\ \/ basis # <<>> /\ HasFixedPx(basis)
                 \/ flex # <<>> /\ HasRigidShorthand(flex)
              /\ shouldReportFixedValue(cfg, "flex-basis", nowrapNum)
           THEN <<DetectedIssue("Non-wrapping fixed flex basis", "critical", r.selector)>>
           ELSE <<>>)
          \o
          (IF NoWrapDeclared(r)
           THEN <<DetectedIssue("Flex container without wrap", "medium", r.selector)>>
           ELSE <<>>)
          \o
          (IF /\ grow = <<"0">> /\ shrink = <<"0">>
              /\ basis # <<>> /\ HasFixedPx(basis)
              /\ shouldReportFixedValue(cfg, "flex-basis",
                                        ParseFloat(FloatPxCapture(basis)))
           THEN <<DetectedIssue("Rigid flex item", "medium", r.selector)>>
           ELSE <<>>)

RECURSIVE detectFlexFragility(_, _)
\* LintEngine.detectFlexFragility
detectFlexFragility(cfg, rules) ==
    IF rules = <<>> THEN <<>>
    ELSE FlexFragilityOfRule(cfg, Head(rules)) \o detectFlexFragility(cfg, Tail(rules))

RECURSIVE detectVwWidthRisk(_, _)
\* LintEngine.detectVwWidthRisk
detectVwWidthRisk(cfg, rules) ==
    IF rules = <<>> THEN <<>>
    ELSE (IF Decl(Head(rules), <<"w", "i", "d", "t", "h">>) # <<>> /\ Has100vw(Decl(Head(rules), <<"w", "i", "d", "t", "h">>))
          THEN <<DetectedIssue("Viewport width overflow", "medium", Head(rules).selector)>>
          ELSE <<>>)
         \o detectVwWidthRisk(cfg, Tail(rules))

RECURSIVE detectOverflowMaskBody(_, _)
\* LintEngine.detectOverflowMaskBody
detectOverflowMaskBody(cfg, rules) ==
    IF rules = <<>> THEN <<>>
    ELSE (IF /\ ToLower(Trim(Head(rules).selector)) = <<"b", "o", "d", "y">>
             /\ Decl(Head(rules), <<"o", "v", "e", "r", "f", "l", "o", "w", "-", "x">>) # <<>>
             /\ Includes(ToLower(Decl(Head(rules), <<"o", "v", "e", "r", "f", "l", "o", "w", "-", "x">>)), <<"h", "i", "d", "d", "e", "n">>)
          THEN <<DetectedIssue("Body overflow masking", "medium", Head(rules).selector)>>
          ELSE <<>>)
         \o detectOverflowMaskBody(cfg, Tail(rules))

\* Object.keys(bySelector): the selectors of the rules, each once, in the
\* order of their first rule.
SelectorsOf(rules) ==
    LET first == {k \in 1..Len(rules) :
                     \A j \in 1..(k - 1) : rules[j].selector # rules[k].selector}
    IN  [n \in 1..Cardinality(first) |->
            rules[CHOOSE k \in first : Cardinality({j \in first : j <= k}) = n].selector]

\* The properties under a selector whose blocks hold more than one value:
\* values.size > 1 for propsMap[k].
ConflictingProperties(rules, sel) ==
    LET blocks == {k \in 1..Len(rules) : rules[k].selector = sel}
        props == UNION {DOMAIN rules[k].declarations : k \in blocks}
    IN  {p \in props :
            Cardinality({rules[k].declarations[p] :
                            k \in {b \in blocks : p \in DOMAIN rules[b].declarations}}) > 1}

MediaConflictIssue(sel) == DetectedIssue("Media query instability", "medium", sel)

RECURSIVE Concat(_)
\* [].concat of a sequence of sequences
Concat(seqs) == IF seqs = <<>> THEN <<>> ELSE Head(seqs) \o Concat(Tail(seqs))

\* A detectMediaConflicts without the break: one issue for each conflicting
\* property.
detectMediaConflictsEveryProperty(cfg, rules) ==
    LET sels == SelectorsOf(rules) IN
    Concat([n \in 1..Len(sels) |->
              [q \in 1..Cardinality(ConflictingProperties(rules, sels[n])) |->
                  MediaConflictIssue(sels[n])]])

\* LintEngine.detectMediaConflicts
detectMediaConflicts(cfg, rules) ==
    LET sels == SelectorsOf(rules) IN
    Concat([n \in 1..Len(sels) |->
              IF ConflictingProperties(rules, sels[n]) # {}
              THEN <<MediaConflictIssue(sels[n])>> ELSE <<>>])

IsMedia(r) == r.at.type = "media"

\* baseMap[sel]: the width of the last base rule of the selector that has
\* one, the empty text if there is none.
BaseWidth(rules, sel) ==
    LET hits == {k \in 1..Len(rules) :
                    /\ ~IsMedia(rules[k]) /\ rules[k].selector = sel
                    /\ Decl(rules[k], <<"w", "i", "d", "t", "h">>) # <<>>}
    IN  IF hits = {} THEN <<>> ELSE Decl(rules[SetMax(hits)], <<"w", "i", "d", "t", "h">>)

\* mediaMap[sel], as the positions of the media rules of the selector that
\* have a width.
MediaWidthRules(rules, sel) ==
    {k \in 1..Len(rules) :
        IsMedia(rules[k]) /\ rules[k].selector = sel /\ Decl(rules[k], <<"w", "i", "d", "t", "h">>) # <<>>}

\* LintEngine.detectMediaWidthInstability.  Object.keys(mediaMap) are the
\* selectors of the media rules that have a width, in the order of their first
\* such rule.
detectMediaWidthInstability(cfg, rules) ==
    LET withWidth == SelectSeq(rules, LAMBDA r : IsMedia(r) /\ Decl(r, <<"w", "i", "d", "t", "h">>) # <<>>)
        sels == SelectorsOf(withWidth)
        bpx(sel) == IntPxCapture(BaseWidth(rules, sel))
        differs(sel) ==
            /\ BaseWidth(rules, sel) # <<>>
            /\ \E k \in MediaWidthRules(rules, sel) :
                  LET mpx == IntPxCapture(Decl(rules[k], <<"w", "i", "d", "t", "h">>)) IN
                  bpx(sel) # <<>> /\ mpx # <<>> /\ bpx(sel) # mpx
    IN  Concat([n \in 1..Len(sels) |->
                  IF differs(sels[n])
                  THEN <<DetectedIssue("Media query instability", "medium", sels[n])>>
                  ELSE <<>>])

\* The detector loop of detectIssues over parsed rules, for three of the
\* per-rule detectors: the upfront ignoreSelectors filter, then each detector
\* on the rules that are left.
DetectorsOnParsed(cfg, rules) ==
    LET kept == UpfrontFilter(cfg, rules) IN
    [flexFragility |-> detectFlexFragility(cfg, kept),
     vwWidthRisk |-> detectVwWidthRisk(cfg, kept),
     overflowMaskBody |-> detectOverflowMaskBody(cfg, kept)]

\* The configurations of the detector runs.
DetectIgnoreLists == { <<>>, << <<"b", "o", "x">> >>, << <<" ">> >> }

DetectConfigs ==
    [mode : {"strict", "pragmatic"}, fixedWidthThreshold : {320},
     fixedHeightThreshold : {200}, fixedSpacingThreshold : {24},
     ignoreSelectors : DetectIgnoreLists]

\* One declaration, and two functions put together.
Declare(name, value) == [x \in {name} |-> value]
With(f, g) == [x \in DOMAIN f \cup DOMAIN g |-> IF x \in DOMAIN g THEN g[x] ELSE f[x]]

\* The flex rules drawn.
FlexDeclarations ==
    { Declare(<<"d", "i", "s", "p", "l", "a", "y">>, <<"f", "l", "e", "x">>),
      With(Declare(<<"d", "i", "s", "p", "l", "a", "y">>, <<"f", "l", "e", "x">>), With(Declare(<<"f", "l", "e", "x", "-", "w", "r", "a", "p">>, <<"n", "o", "w", "r", "a", "p">>), Declare(<<"f", "l", "e", "x", "-", "b", "a", "s", "i", "s">>, <<"3", "2", "1", "p", "x">>))),
      With(Declare(<<"d", "i", "s", "p", "l", "a", "y">>, <<"f", "l", "e", "x">>), With(Declare(<<"f", "l", "e", "x", "-", "w", "r", "a", "p">>, <<"n", "o", "w", "r", "a", "p">>), Declare(<<"f", "l", "e", "x", "-", "b", "a", "s", "i", "s">>, <<"3", "2", "0", "p", "x">>))),
      With(Declare(<<"d", "i", "s", "p", "l", "a", "y">>, <<"f", "l", "e", "x">>), With(Declare(<<"f", "l", "e", "x", "-", "w", "r", "a", "p">>, <<"n", "o", "w", "r", "a", "p">>), Declare(<<"f", "l", "e", "x">>, <<"0", " ", "0", " ", "4", "0", "0", "p", "x">>))),
      With(Declare(<<"d", "i", "s", "p", "l", "a", "y">>, <<"f", "l", "e", "x">>), With(Declare(<<"f", "l", "e", "x", "-", "w", "r", "a", "p">>, <<"n", "o", "w", "r", "a", "p">>), Declare(<<"f", "l", "e", "x">>, <<"0", " ", "0", " ", "1", "0", "p", "x">>))),
      With(Declare(<<"d", "i", "s", "p", "l", "a", "y">>, <<"f", "l", "e", "x">>),
           With(Declare(<<"f", "l", "e", "x", "-", "w", "r", "a", "p">>, <<"n", "o", "w", "r", "a", "p">>),
                With(Declare(<<"f", "l", "e", "x">>, <<"0", " ", "0", " ", "1", "0", "p", "x">>), Declare(<<"f", "l", "e", "x", "-", "b", "a", "s", "i", "s">>, <<"a", "u", "t", "o">>)))),
      With(Declare(<<"d", "i", "s", "p", "l", "a", "y">>, <<"i", "n", "l", "i", "n", "e", "-", "f", "l", "e", "x">>),
           With(Declare(<<"f", "l", "e", "x", "-", "w", "r", "a", "p">>, <<"w", "r", "a", "p">>),
                With(Declare(<<"f", "l", "e", "x", "-", "g", "r", "o", "w">>, <<"0">>),
                     With(Declare(<<"f", "l", "e", "x", "-", "s", "h", "r", "i", "n", "k">>, <<"0">>), Declare(<<"f", "l", "e", "x", "-", "b", "a", "s", "i", "s">>, <<"5", "0", "0", "P", "X">>))))),
      With(Declare(<<"d", "i", "s", "p", "l", "a", "y">>, <<"f", "l", "e", "x">>), Declare(<<"f", "l", "e", "x", "-", "w", "r", "a", "p">>, <<>>)),
      Declare(<<"d", "i", "s", "p", "l", "a", "y">>, <<"b", "l", "o", "c", "k">>) }

FlexRules ==
    { ParsedRule(<<".", "r", "o", "w">>, d, BaseAt) : d \in FlexDeclarations }
    \cup
    { ParsedRule(<<".", "B", "o", "x", " ", "a">>, d, BaseAt) :
        d \in { Declare(<<"d", "i", "s", "p", "l", "a", "y">>, <<"f", "l", "e", "x">>),
                With(Declare(<<"d", "i", "s", "p", "l", "a", "y">>, <<"f", "l", "e", "x">>), Declare(<<"f", "l", "e", "x", "-", "w", "r", "a", "p">>, <<"w", "r", "a", "p">>)) } }

\* The rules drawn for the detector loop.
LoopRules ==
    { ParsedRule(sel, d, BaseAt) :
        sel \in {<<"b", "o", "d", "y">>, <<".", "B", "o", "x", " ", "a">>, <<".", "r", "o", "w">>},
        d \in { With(Declare(<<"w", "i", "d", "t", "h">>, <<"1", "0", "0", "v", "w">>), Declare(<<"d", "i", "s", "p", "l", "a", "y">>, <<"f", "l", "e", "x">>)),
                Declare(<<"o", "v", "e", "r", "f", "l", "o", "w", "-", "x">>, <<"h", "i", "d", "d", "e", "n">>),
                Declare(<<"w", "i", "d", "t", "h">>, <<"1", "0", "0", "V", "W">>) } }

\* The rules drawn for detectMediaConflicts.
ConflictRules ==
    { ParsedRule(sel, d, at) :
        sel \in {<<".", "a">>, <<".", "A">>},
        d \in { With(Declare(<<"w", "i", "d", "t", "h">>, <<"1", "0", "0", "p", "x">>), Declare(<<"c", "o", "l", "o", "r">>, <<"r", "e", "d">>)),
                With(Declare(<<"w", "i", "d", "t", "h">>, <<"2", "0", "0", "p", "x">>), Declare(<<"c", "o", "l", "o", "r">>, <<"b", "l", "u", "e">>)),
                Declare(<<"w", "i", "d", "t", "h">>, <<"1", "0", "0", "p", "x">>) },
        at \in {BaseAt, MediaAt(<<"(", "m", "a", "x", "-", "w", "i", "d", "t", "h", ":", " ", "6", "0", "0", "p", "x", ")">>)} }

\* The rules drawn for detectMediaWidthInstability.
WidthRules ==
    { ParsedRule(<<".", "a">>, Declare(<<"w", "i", "d", "t", "h">>, w), at) :
        w \in {<<"1", "0", "0", "p", "x">>, <<"2", "0", "0", "p", "x">>, <<"1", "0", ".", "5", "p", "x">>, <<"2", "0", ".", "5", "p", "x">>, <<"5", "0", "%">>},
        at \in {BaseAt, MediaAt(<<"(", "m", "a", "x", "-", "w", "i", "d", "t", "h", ":", " ", "6", "0", "0", "p", "x", ")">>)} }
    \cup
    { ParsedRule(<<".", "b">>, Declare(<<"w", "i", "d", "t", "h">>, <<"1", "0", "0", "p", "x">>), BaseAt),
      ParsedRule(<<".", "b">>, Declare(<<"c", "o", "l", "o", "r">>, <<"r", "e", "d">>), MediaAt(<<"(", "m", "a", "x", "-", "w", "i", "d", "t", "h", ":", " ", "6", "0", "0", "p", "x", ")">>)) }

\* The lists of 1 to n rules of a set.
RuleLists(S, n) == UNION { [1..k -> S] : k \in 1..n }

NoPerDetector == [flexFragility |-> <<>>, vwWidthRisk |-> <<>>, overflowMaskBody |-> <<>>]

IdleDetectOp == [op |-> "init", rules |-> <<>>, issues |-> <<>>, perDetector |-> NoPerDetector]

\* A call of detectFlexFragility({ parsed }).
DetectFlexFragility(rules) ==
    /\ detectOp.op = "init"
    /\ detectOp' = [op |-> "flexFragility", rules |-> rules,
                    issues |-> detectFlexFragility(config, rules),
                    perDetector |-> NoPerDetector]
    /\ UNCHANGED <<cacheVars, engineVars, lintVars, parseVars, vizVars, presentVars, declVars, analyzeVars>>

\* A call of detectMediaConflicts({ parsed }).
DetectMediaConflicts(rules) ==
    /\ detectOp.op = "init"
    /\ detectOp' = [op |-> "mediaConflicts", rules |-> rules,
                    issues |-> detectMediaConflicts(config, rules),
                    perDetector |-> NoPerDetector]
    /\ UNCHANGED <<cacheVars, engineVars, lintVars, parseVars, vizVars, presentVars, declVars, analyzeVars>>

\* A call of detectMediaWidthInstability({ parsed }).
DetectMediaWidthInstability(rules) ==
    /\ detectOp.op = "init"
    /\ detectOp' = [op |-> "mediaWidthInstability", rules |-> rules,
                    issues |-> detectMediaWidthInstability(config, rules),
                    perDetector |-> NoPerDetector]
    /\ UNCHANGED <<cacheVars, engineVars, lintVars, parseVars, vizVars, presentVars, declVars, analyzeVars>>

\* The detector loop of detectIssues on the rules parseRules returned.
DetectOnParsed(rules) ==
    /\ detectOp.op = "init"
    /\ LET done == DetectorsOnParsed(config, rules) IN
       detectOp' = [op |-> "detectIssues", rules |-> rules,
                    issues |-> done.flexFragility \o done.vwWidthRisk
                                  \o done.overflowMaskBody,
                    perDetector |-> done]
    /\ UNCHANGED <<cacheVars, engineVars, lintVars, parseVars, vizVars, presentVars, declVars, analyzeVars>>

\* The detectors of the loop in detectIssues that are modelled on the parsed
\* rules, in the order of the loop.
DetectorNames ==
    <<"detectMediaConflicts", "detectOverflowMaskBody", "detectVwWidthRisk",
      "detectMediaWidthInstability", "detectFlexFragility">>

\* detector.call(this, { parsed, css })
CallDetector(name, cfg, parsedRules) ==
    CASE name = "detectMediaConflicts" -> detectMediaConflicts(cfg, parsedRules.rules)
      [] name = "detectOverflowMaskBody" -> detectOverflowMaskBody(cfg, parsedRules.rules)
      [] name = "detectVwWidthRisk" -> detectVwWidthRisk(cfg, parsedRules.rules)
      [] name = "detectMediaWidthInstability" -> detectMediaWidthInstability(cfg, parsedRules.rules)
      [] name = "detectFlexFragility" -> detectFlexFragility(cfg, parsedRules.rules)

\* A turn of the loop in which the detector skips the rules already reported.
RunDetectorOnUnreported(acc, name, cfg) ==
    LET unreported == SelectSeq(acc.parsed.rules, LAMBDA r :
                          \A i \in 1..Len(acc.issues) : acc.issues[i].selector # r.selector)
    IN  [parsed |-> acc.parsed,
         issues |-> acc.issues \o CallDetector(name, cfg, [rules |-> unreported])]

\* One turn of the loop: the detector is given the parsed document, which it
\* leaves as it was, and its issues are pushed after those collected so far.
RunDetector(acc, name, cfg) ==
    [parsed |-> acc.parsed,
     issues |-> acc.issues \o CallDetector(name, cfg, acc.parsed)]

RECURSIVE RunDetectors(_, _, _)
\* for (const detector of detectors) { ... }
RunDetectors(order, acc, cfg) ==
    IF order = <<>> THEN acc
    ELSE RunDetectors(Tail(order), RunDetector(acc, Head(order), cfg), cfg)

\* The orders the detectors can be run in
DetectorOrders ==
    {[i \in 1..Len(DetectorNames) |-> DetectorNames[p[i]]] :
        p \in {q \in [1..Len(DetectorNames) -> 1..Len(DetectorNames)] :
                  \A i, j \in 1..Len(DetectorNames) : q[i] = q[j] => i = j}}

\* The rule lists run in every order: one rule, or a rule and its @media twin
OrderedRuleLists ==
    {<<r>> : r \in LoopRules}
    \cup
    {<<pair[1], pair[2]>> :
        pair \in {c \in ConflictRules \X ConflictRules :
                     ~IsMedia(c[1]) /\ IsMedia(c[2]) /\ c[1].selector = c[2].selector}}

\* The detector loop of detectIssues with its detectors taken in `order`.
DetectInOrder(rules, order) ==
    /\ detectOp.op = "init"
    /\ LET kept == UpfrontFilter(config, rules)
           done == RunDetectors(order, [parsed |-> [rules |-> kept], issues |-> <<>>], config)
       IN  detectOp' = [op |-> "detectInOrder", rules |-> rules, issues |-> done.issues,
                        perDetector |-> NoPerDetector, order |-> order]
    /\ UNCHANGED <<cacheVars, engineVars, lintVars, parseVars, vizVars, presentVars, declVars, analyzeVars>>

\* ---------- presentation: buildStatsModel ----------

MaxBatch == 2

\* String(i.severity || '').toLowerCase(), on the severities issues carry.
SeverityLower(severity) ==
    CASE severity = "Critical" -> "critical"
      [] severity = "Medium" -> "medium"
      [] severity = "Low" -> "low"
      [] OTHER -> severity

NullVisualization == [null |-> TRUE, ascii |-> <<>>]

\* What the try block of the map callback does for one issue with the
\* instances the visualizer holds: nothing when the issue maps to null,
\* otherwise visualizer.generate.
StatsTry(instances, mapped) ==
    IF mapped = NullVisualizerIssue
    THEN [instances |-> instances, outcome |-> "returned", invoked |-> FALSE,
          result |-> NoVisualization]
    ELSE generate(instances, mapped)

\* The item of issues[idx], given what the try block did: visualization stays
\* null when the issue maps to null and when the block threw.
StatsItem(issues, idx, mapped, done) ==
    [idx |-> idx - 1,
     title |-> issues[idx].issue,
     sev |-> SeverityLower(issues[idx].severity),
     line |-> issues[idx].lineNumber,
     suggestion |-> OrText(issues[idx].suggestion, issues[idx].correction),
     visualization |->
        IF mapped # NullVisualizerIssue /\ done.outcome = "returned"
        THEN [null |-> FALSE, ascii |-> done.result.ascii]
        ELSE NullVisualization]

RECURSIVE StatsItemsNoCatch(_, _, _)
\* The items when an exception of the callback ends the map.
StatsItemsNoCatch(issues, idx, instances) ==
    IF idx > Len(issues) THEN <<>>
    ELSE LET mapped == StatsMapToVisualizerIssue(issues[idx])
             done == StatsTry(instances, mapped)
         IN  IF done.outcome = "thrown" THEN <<>>
             ELSE <<StatsItem(issues, idx, mapped, done)>>
                     \o StatsItemsNoCatch(issues, idx + 1, done.instances)

RECURSIVE StatsItems(_, _, _)
\* issues.map((i, idx) => ...) from position idx on, with the generator
\* instances the one visualizer of the call holds.
StatsItems(issues, idx, instances) ==
    IF idx > Len(issues) THEN <<>>
    ELSE LET mapped == StatsMapToVisualizerIssue(issues[idx])
             done == StatsTry(instances, mapped)
         IN  <<StatsItem(issues, idx, mapped, done)>>
                 \o StatsItems(issues, idx + 1, done.instances)

\* counts of buildStatsModel
StatsCounts(issues) ==
    [s \in {"critical", "medium", "low"} |->
        Cardinality({k \in 1..Len(issues) : SeverityLower(issues[k].severity) = s})]

\* A buildStatsModel without the try / catch.
buildStatsModelNoCatch(issues) ==
    [counts |-> StatsCounts(issues), items |-> StatsItemsNoCatch(issues, 1, NoInstances)]

\* buildStatsModel: the counts and the items (of an item: idx, title, sev,
\* line, suggestion, visualization).
buildStatsModel(issues) ==
    [counts |-> StatsCounts(issues), items |-> StatsItems(issues, 1, NoInstances)]

NoStatsModel == [counts |-> [s \in {} |-> 0], items |-> <<>>]

IdlePresentOp ==
    [op |-> "init", path |-> None, issues |-> <<>>, mapped |-> NullVisualizerIssue,
     model |-> NoStatsModel]

MapPaths == {"stats", "hover", "lint"}

\* A call of one of the three mapToVisualizerIssue on an issue.
MapToVisualizerIssue(path, issue) ==
    /\ presentOp.op = "init"
    /\ presentOp' =
          [op |-> "map", path |-> path, issues |-> <<issue>>,
           mapped |-> CASE path = "stats" -> StatsMapToVisualizerIssue(issue)
                        [] path = "hover" -> HoverMapToVisualizerIssue(issue)
                        [] path = "lint" -> LintMapToVisualizerIssue(issue),
           model |-> NoStatsModel]
    /\ UNCHANGED <<cacheVars, engineVars, lintVars, parseVars, vizVars, declVars, detectVars, analyzeVars>>

\* The batches of at most n issues.
Batches(n) == UNION { [1..k -> BatchIssues] : k \in 0..n }

\* A call of buildStatsModel(issues, classifier).
BuildStatsModel(issues) ==
    /\ presentOp.op = "init"
    /\ presentOp' =
          [op |-> "stats", path |-> "stats", issues |-> issues,
           mapped |-> NullVisualizerIssue, model |-> buildStatsModel(issues)]
    /\ UNCHANGED <<cacheVars, engineVars, lintVars, parseVars, vizVars, declVars, detectVars, analyzeVars>>

\* ---------- declarations: parseDeclarations ----------

MaxFragments == 3

\* The fragments blocks are written from.  A fragment is its text, and, as
\* written down by hand, whether it is a declaration and the property and
\* value it declares: plain declarations, one with an upper-case name and
\* spaces around name and value, one with a colon in the value, one with an
\* empty value, an empty fragment, a blank one and one without a colon.
Fragment(text, declares, property, value) ==
    [text |-> text, declares |-> declares, property |-> property, value |-> value]

Fragments ==
    { Fragment(<<"w", ":", "1", "p", "x">>, TRUE, <<"w">>, <<"1", "p", "x">>),
      Fragment(<<" ", "W", " ", ":", " ", "2", "p", "x", " ">>, TRUE, <<"w">>, <<"2", "p", "x">>),
      Fragment(<<"b", ":", "a", ":", "x">>, TRUE, <<"b">>, <<"a", ":", "x">>),
      Fragment(<<"b", ":">>, TRUE, <<"b">>, <<>>),
      Fragment(<<>>, FALSE, <<>>, <<>>),
      Fragment(<<" ", "\n">>, FALSE, <<>>, <<>>),
      Fragment(<<"w", " ", "1", "p", "x">>, FALSE, <<>>, <<>>) }

FragmentLists(n) == UNION { [1..k -> Fragments] : k \in 0..n }

\* The block: the fragments' texts with a ";" between them.
BlockText(fragments) == Join([k \in 1..Len(fragments) |-> fragments[k].text], ";")

IdleDeclOp ==
    [op |-> "init", fragments |-> <<>>, block |-> <<>>,
     declarations |-> [x \in {} |-> <<>>]]

\* A call of parseDeclarations(block).
ParseDeclarations ==
    /\ declOp.op = "init"
    /\ declOp' = [declOp EXCEPT !.op = "parse",
                                !.declarations = parseDeclarations(declOp.block)]
    /\ UNCHANGED <<cacheVars, engineVars, lintVars, parseVars, vizVars, presentVars, detectVars, analyzeVars>>

\* ---------- LintEngine: mapIssuesToLines ----------

MaxDeclLines == 2

\* /\}/.test(line)
ClosesBlock(line) == \E i \in 1..Len(line) : line[i] = "}"

\* The positions where px\b stands
PxEnds(v) == {p \in 1..Len(v) : PxAt(v, p) /\ WordBoundary(v, p + 2)}

\* unitRegex /\b\d+(\.\d+)?\s*px\b/i: the pairs <<i, e>> with v[i..e] a match
UnitMatches(v) ==
    {m \in (1..Len(v)) \X {p + 1 : p \in PxEnds(v)} :
        /\ m[1] < m[2] - 1
        /\ WordBoundary(v, m[1])
        /\ \E j \in m[1]..(m[2] - 2) :
              NumberAt(v, m[1], j) /\ \A k \in (j + 1)..(m[2] - 2) : IsSpace(v[k])}

\* new RegExp(`${property}\\s*:\\s*[^;]*\\b\\d+(?:\\.\\d+)?\\s*px\\b`, 'i'):
\* the pairs <<a, e>> with v[a..e] a match, `units` being UnitMatches(v)
PropertyMatchesIn(v, property, units) ==
    {m \in (1..Len(v)) \X {u[2] : u \in units} :
        /\ IsPrefixAt(ToLower(v), ToLower(property), m[1])
        /\ \E c \in (m[1] + Len(property))..Len(v) :
              /\ v[c] = ":"
              /\ \A k \in (m[1] + Len(property))..(c - 1) : IsSpace(v[k])
              /\ \E u \in units :
                    /\ u[2] = m[2]
                    /\ u[1] > c
                    /\ \A k \in (c + 1)..(u[1] - 1) : v[k] # ";"}

PropertyMatches(v, property) ==
    The({PropertyMatchesIn(v, property, units) : units \in {UnitMatches(v)}})

\* String.prototype.match without the g flag: the leftmost match, taken as
\* far as the greedy quantifiers reach; NoMatch stands for null
NoMatch == [index |-> 0, end |-> 0]
LeftMost(matches) ==
    IF matches = {} THEN NoMatch
    ELSE LET i == SetMin({m[1] : m \in matches})
         IN  [index |-> i, end |-> SetMax({m[2] : m \in {n \in matches : n[1] = i}})]

\* The loop body's match: propertyRegex when the issue has a property, and
\* unitRegex whenever that gave no match
LineMatch(ln, property) ==
    The({LET byProperty == IF property # <<>>
                           THEN LeftMost(PropertyMatchesIn(ln, property, units))
                           ELSE NoMatch
         IN  IF byProperty # NoMatch THEN byProperty ELSE LeftMost(units)
         : units \in {UnitMatches(ln)}})

\* startChar and endChar for a match on line ln (0-based, end exclusive)
Highlight(ln, match) ==
    LET full == SubSeq(ln, match.index, match.end)
        index == IndexOf(ln, full, 1)
        unitMatch == LeftMost(UnitMatches(full))
        token == SubSeq(full, unitMatch.index, unitMatch.end)
        unitIndex == IndexOf(ln, token, index) - 1
    IN  IF unitMatch # NoMatch
        THEN [startChar |-> unitIndex, endChar |-> unitIndex + Len(token)]
        ELSE [startChar |-> index - 1, endChar |-> index - 1 + Len(full)]

\* The 0-based number of the first line that includes the selector, else 0
SelectorLine(lines, selector) ==
    LET hits == {i \in 1..Len(lines) : Includes(lines[i], selector)}
    IN  IF hits = {} THEN 0 ELSE SetMin(hits) - 1

\* endBlockLine: the first line from lineNumber on that has a "}"
EndBlockLine(lines, lineNumber) ==
    LET closes == {i \in lineNumber..(Len(lines) - 1) : ClosesBlock(lines[i + 1])}
    IN  IF closes # {} THEN SetMin(closes) ELSE Min(Len(lines) - 1, lineNumber + 10)

\* The position mapIssuesToLines gives one issue
mapIssueToLine(lines, issue) ==
    LET lineNumber == SelectorLine(lines, issue.selector)
        endBlockLine == EndBlockLine(lines, lineNumber)
        matching == {i \in lineNumber..endBlockLine : LineMatch(lines[i + 1], issue.property) # NoMatch}
    IN  IF matching # {}
        THEN LET targetLine == SetMin(matching)
                 ln == lines[targetLine + 1]
                 h == Highlight(ln, LineMatch(ln, issue.property))
             IN  [lineNumber |-> targetLine, startChar |-> h.startChar, endChar |-> h.endChar]
        ELSE [lineNumber |-> lineNumber, startChar |-> 0,
              endChar |-> Max(1, Len(lines[lineNumber + 1]))]

\* mapIssuesToLines(issues, document): text.split('\n'), then every issue placed
mapIssuesToLines(issues, text) ==
    The({[i \in 1..Len(issues) |-> mapIssueToLine(lines, issues[i])] : lines \in {Split(text, "\n")}})

\* The declarations the documents are written from
DeclarationTexts ==
    {<<" ", "w", "i", "d", "t", "h", ":", " ", "6", "0", "0", "p", "x", ";">>, <<" ", "p", "a", "d", "d", "i", "n", "g", ":", " ", "4", "p", "x", ";">>, <<" ", "w", "i", "d", "t", "h", ":", " ", "5", "0", "%", ";">>, <<" ", "m", "a", "x", "-", "w", "i", "d", "t", "h", ":", " ", "9", "0", "p", "x", ";">>, <<" ", "m", "a", "r", "g", "i", "n", ":", " ", "0", " ", "a", "u", "t", "o", ";">>}

DeclarationLists == UNION {[1..n -> DeclarationTexts] : n \in 1..MaxDeclLines}

\* One rule for .card, a declaration per line or all on the selector's line
DocumentText(declarations, layout) ==
    IF layout = "lines"
    THEN Join(<<<<".", "c", "a", "r", "d", " ", "{">>>> \o declarations \o <<<<"}">>>>, "\n")
    ELSE <<".", "c", "a", "r", "d", " ", "{">> \o Concat(declarations) \o <<" ", "}">>

\* The issues placed: with the property the detector names, and without one
MappedIssues ==
    {[selector |-> <<".", "c", "a", "r", "d">>, property |-> <<"w", "i", "d", "t", "h">>],
     [selector |-> <<".", "c", "a", "r", "d">>, property |-> <<"p", "a", "d", "d", "i", "n", "g">>],
     [selector |-> <<".", "c", "a", "r", "d">>, property |-> <<>>]}

\* A call of mapIssuesToLines([issue], document)
MapIssuesToLines(declarations, layout, issue) ==
    /\ lintOp.op = "init"
    /\ \E text \in {DocumentText(declarations, layout)} :
          lintOp' = [op |-> "mapIssuesToLines", text |-> text, issue |-> issue,
                     mapped |-> mapIssuesToLines(<<issue>>, text)[1]]
    /\ UNCHANGED <<cacheVars, engineVars, config, parseVars, vizVars, presentVars, declVars, detectVars, analyzeVars>>

\* ---------- LintEngine: debounced analysis ----------

\* The documents analysed are told apart by their URI.
Uris == {"a.css", "b.css"}

\* config.debounceMs, counted in ticks of the clock `now`
debounceMs == 2

\* config.maxProblems
maxProblems == 2

MaxAnalyzeCalls == 3
MaxTime == 5

\* detectIssues(css, document) either returns a list of issues or throws.
DetectedLists == {<<>>, <<"Fixed width">>, <<"Fixed width", "Fixed height", "Overflow masked">>}
Throws == [threw |-> TRUE, issues |-> <<>>]
Outcomes == {[threw |-> FALSE, issues |-> l] : l \in DetectedLists} \cup {Throws}

\* Map.prototype.set / delete on a map kept as a function
MapSet(m, k, v) == [x \in DOMAIN m \cup {k} |-> IF x = k THEN v ELSE m[x]]
MapDelete(m, k) == [x \in DOMAIN m \ {k} |-> m[x]]
MapValues(m) == {m[x] : x \in DOMAIN m}

NoTimers == [u \in {} |-> 0]
NoIssues == [u \in {} |-> <<>>]

\* clearTimeout(id): the timeout leaves the event loop; no effect once it fired
clearTimeout(pending, id) == {t \in pending : t.id # id}

\* setTimeout(callback, config.debounceMs): the callback closes over the document
setTimeout(pending, id, document, at) ==
    pending \cup {[id |-> id, uri |-> document.uri, document |-> document.version, due |-> at + debounceMs]}

\* analyze(document): the timers map and the pending timeouts it leaves
analyze(dt, pending, document, id, at) ==
    LET fileUri == document.uri
        cleared == IF fileUri \in DOMAIN dt THEN clearTimeout(pending, dt[fileUri]) ELSE pending
    IN  [debounceTimers |-> MapSet(dt, fileUri, id),
         timers |-> setTimeout(cleared, id, document, at)]

\* issues.slice(0, config.maxProblems)
limitIssues(issues) == SubSeq(issues, 1, Min(Len(issues), maxProblems))

\* issuesToDiagnostics(issues, document): one diagnostic per issue, in order
issuesToDiagnostics(issues) ==
    [i \in 1..Len(issues) |-> [message |-> issues[i], source |-> "Box Model Sentinel"]]

\* getIssuesForUri(uri)
getIssuesForUri(byUri, uri) == IF uri \in DOMAIN byUri THEN byUri[uri] ELSE <<>>

IdleAnalysisOp ==
    [op |-> "init", uri |-> None, threw |-> FALSE, disposed |-> FALSE,
     calls |-> <<>>, runs |-> <<>>, delivered |-> NoIssues]

NoTimerDue == \A t \in timers : t.due > now

\* analyze(document), called by the editor integration on a change
Analyze(u) ==
    /\ ~analysisOp.disposed
    /\ NoTimerDue
    /\ Len(analysisOp.calls) < MaxAnalyzeCalls
    /\ LET id == Len(analysisOp.calls) + 1
           r == analyze(debounceTimers, timers, [uri |-> u, version |-> id], id, now)
       IN  /\ debounceTimers' = r.debounceTimers
           /\ timers' = r.timers
           /\ analysisOp' = [analysisOp EXCEPT !.op = "analyze", !.uri = u, !.threw = FALSE,
                               !.calls = Append(@, [uri |-> u, at |-> now, from |-> "editor"])]
    /\ UNCHANGED <<now, issuesByUri, diagnosticCollection>>
    /\ UNCHANGED <<cacheVars, engineVars, lintVars, parseVars, vizVars, presentVars, declVars, detectVars>>

\* The timer callback: executeAnalysis(document), then debounceTimers.delete(fileUri).
\* Detection returns `outcome`; the analysis listener, notified on success,
\* may itself call analyze for the document of `reenter`.
TimerFires(t, outcome, reenter) ==
    /\ t \in timers
    /\ t.due <= now
    /\ reenter # None => (~outcome.threw /\ Len(analysisOp.calls) < MaxAnalyzeCalls)
    /\ LET fileUri == t.uri
           fired == timers \ {t}
           ok == ~outcome.threw
           limitedIssues == limitIssues(outcome.issues)
           id == Len(analysisOp.calls) + 1
           listened == IF reenter # None
                       THEN analyze(debounceTimers, fired, [uri |-> reenter, version |-> id], id, now)
                       ELSE [debounceTimers |-> debounceTimers, timers |-> fired]
       IN  /\ issuesByUri' = IF ok THEN MapSet(issuesByUri, fileUri, limitedIssues) ELSE issuesByUri
           /\ diagnosticCollection' =
                  MapSet(diagnosticCollection, fileUri, IF ok THEN issuesToDiagnostics(limitedIssues) ELSE <<>>)
           /\ timers' = listened.timers
           /\ debounceTimers' = MapDelete(listened.debounceTimers, fileUri)
           /\ analysisOp' = [analysisOp EXCEPT
                  !.op = "executeAnalysis", !.uri = fileUri, !.threw = ~ok,
                  !.delivered = IF ok THEN MapSet(@, fileUri, limitedIssues) ELSE @,
                  !.calls = IF reenter # None
                            THEN Append(@, [uri |-> reenter, at |-> now, from |-> "listener"])
                            ELSE @,
                  !.runs = Append(@, [document |-> t.document, uri |-> fileUri, at |-> now,
                                      disposed |-> analysisOp.disposed])]
    /\ UNCHANGED now
    /\ UNCHANGED <<cacheVars, engineVars, lintVars, parseVars, vizVars, presentVars, declVars, detectVars>>

\* dispose(): clearTimeout for every recorded timer, then debounceTimers.clear()
Dispose ==
    /\ ~analysisOp.disposed
    /\ timers' = {t \in timers : t.id \notin MapValues(debounceTimers)}
    /\ debounceTimers' = NoTimers
    /\ analysisOp' = [analysisOp EXCEPT !.op = "dispose", !.uri = None, !.threw = FALSE, !.disposed = TRUE]
    /\ UNCHANGED <<now, issuesByUri, diagnosticCollection>>
    /\ UNCHANGED <<cacheVars, engineVars, lintVars, parseVars, vizVars, presentVars, declVars, detectVars>>

\* Time passes once every timeout that is due has run.
Tick ==
    /\ now < MaxTime
    /\ NoTimerDue
    /\ now' = now + 1
    /\ UNCHANGED <<debounceTimers, timers, issuesByUri, diagnosticCollection, analysisOp>>
    /\ UNCHANGED <<cacheVars, engineVars, lintVars, parseVars, vizVars, presentVars, declVars, detectVars>>

\* ---------- specifications ----------

\* Each specification starts every object as its constructor leaves it and
\* then runs the operations of one of them.

NoStored == [k \in {} |-> None]
NoDoc == [items |-> <<>>, layout |-> "tight", cut |-> 0]

\* new TemplateCache(maxSize)
CacheInit ==
    /\ cache = <<>>
    /\ maxSize \in 1..MaxCacheSize
    /\ clock = 0
    /\ lastAccess = [k \in CacheKeys |-> 0]
    /\ cacheOp = IdleCacheOp
    /\ stored = NoStored
    /\ engineOp = IdleEngineOp
    /\ config = DefaultConfig
    /\ lintOp = IdleLintOp
    /\ raw = <<>>
    /\ doc = NoDoc
    /\ parsed = NotParsed
    /\ generatorInstances = NoInstances
    /\ vizOp = IdleVizOp
    /\ presentOp = IdlePresentOp
    /\ declOp = IdleDeclOp
    /\ detectOp = IdleDetectOp
    /\ debounceTimers = NoTimers
    /\ timers = {}
    /\ now = 0
    /\ issuesByUri = NoIssues
    /\ diagnosticCollection = NoIssues
    /\ analysisOp = IdleAnalysisOp

CacheNext ==
    \/ \E k \in CacheKeys : Get(k)
    \/ \E k \in CacheKeys, v \in CacheValues : Set(k, v)
    \/ \E k \in CacheKeys : Has(k)
    \/ Clear

SpecCache == CacheInit /\ [][CacheNext]_vars

\* new TemplateEngine(): its cache is a new TemplateCache() of the default size.
EngineInit ==
    /\ cache = <<>>
    /\ maxSize = DefaultMaxSize
    /\ clock = 0
    /\ lastAccess = [k \in CacheKeys |-> 0]
    /\ cacheOp = IdleCacheOp
    /\ stored = [k \in EngineKeys |-> None]
    /\ engineOp = IdleEngineOp
    /\ config = DefaultConfig
    /\ lintOp = IdleLintOp
    /\ raw = <<>>
    /\ doc = NoDoc
    /\ parsed = NotParsed
    /\ generatorInstances = NoInstances
    /\ vizOp = IdleVizOp
    /\ presentOp = IdlePresentOp
    /\ declOp = IdleDeclOp
    /\ detectOp = IdleDetectOp
    /\ debounceTimers = NoTimers
    /\ timers = {}
    /\ now = 0
    /\ issuesByUri = NoIssues
    /\ diagnosticCollection = NoIssues
    /\ analysisOp = IdleAnalysisOp

EngineNext ==
    \/ \E i \in EngineIssues, r \in RenderResults : Render(i, r)
    \/ ClearCache

SpecEngine == EngineInit /\ [][EngineNext]_vars

\* new LintEngine() followed by loadConfiguration(userConfig)
LintInit ==
    /\ cache = <<>>
    /\ maxSize = 1
    /\ clock = 0
    /\ lastAccess = [k \in CacheKeys |-> 0]
    /\ cacheOp = IdleCacheOp
    /\ stored = NoStored
    /\ engineOp = IdleEngineOp
    /\ config \in Configs
    /\ lintOp = IdleLintOp
    /\ raw = <<>>
    /\ doc = NoDoc
    /\ parsed = NotParsed
    /\ generatorInstances = NoInstances
    /\ vizOp = IdleVizOp
    /\ presentOp = IdlePresentOp
    /\ declOp = IdleDeclOp
    /\ detectOp = IdleDetectOp
    /\ debounceTimers = NoTimers
    /\ timers = {}
    /\ now = 0
    /\ issuesByUri = NoIssues
    /\ diagnosticCollection = NoIssues
    /\ analysisOp = IdleAnalysisOp

LintNext ==
    \/ \E k \in Kinds, v \in FiniteValues \cup NonFinite : ShouldReport(k, v)
    \/ \E d \in LintDocs : DetectIssues(d)

SpecLint == LintInit /\ [][LintNext]_vars

\* The text handed to parseRules, before the call.
ParseInit ==
    /\ cache = <<>>
    /\ maxSize = 1
    /\ clock = 0
    /\ lastAccess = [k \in CacheKeys |-> 0]
    /\ cacheOp = IdleCacheOp
    /\ stored = NoStored
    /\ engineOp = IdleEngineOp
    /\ config = DefaultConfig
    /\ lintOp = IdleLintOp
    /\ doc \in ParseDocs
    /\ raw = DocText(doc)
    /\ parsed = NotParsed
    /\ generatorInstances = NoInstances
    /\ vizOp = IdleVizOp
    /\ presentOp = IdlePresentOp
    /\ declOp = IdleDeclOp
    /\ detectOp = IdleDetectOp
    /\ debounceTimers = NoTimers
    /\ timers = {}
    /\ now = 0
    /\ issuesByUri = NoIssues
    /\ diagnosticCollection = NoIssues
    /\ analysisOp = IdleAnalysisOp

ParseNext == ParseRules

SpecParse == ParseInit /\ [][ParseNext]_vars

\* new AsciiVisualizer(): no generator is instantiated yet.
VizInit ==
    /\ cache = <<>>
    /\ maxSize = 1
    /\ clock = 0
    /\ lastAccess = [k \in CacheKeys |-> 0]
    /\ cacheOp = IdleCacheOp
    /\ stored = NoStored
    /\ engineOp = IdleEngineOp
    /\ config = DefaultConfig
    /\ lintOp = IdleLintOp
    /\ raw = <<>>
    /\ doc = NoDoc
    /\ parsed = NotParsed
    /\ generatorInstances = NoInstances
    /\ vizOp = IdleVizOp
    /\ presentOp = IdlePresentOp
    /\ declOp = IdleDeclOp
    /\ detectOp = IdleDetectOp
    /\ debounceTimers = NoTimers
    /\ timers = {}
    /\ now = 0
    /\ issuesByUri = NoIssues
    /\ diagnosticCollection = NoIssues
    /\ analysisOp = IdleAnalysisOp

VizNext ==
    \/ \E i \in VizIssues : Generate(i)
    \/ \E t \in {"error-type", "fixed-dimensions"}, m \in ErrorMessages :
          RegisterGenerator(t, m)

SpecViz == VizInit /\ [][VizNext]_vars

\* Before a presentation of issues.
PresentInit ==
    /\ cache = <<>>
    /\ maxSize = 1
    /\ clock = 0
    /\ lastAccess = [k \in CacheKeys |-> 0]
    /\ cacheOp = IdleCacheOp
    /\ stored = NoStored
    /\ engineOp = IdleEngineOp
    /\ config = DefaultConfig
    /\ lintOp = IdleLintOp
    /\ raw = <<>>
    /\ doc = NoDoc
    /\ parsed = NotParsed
    /\ generatorInstances = NoInstances
    /\ vizOp = IdleVizOp
    /\ presentOp = IdlePresentOp
    /\ declOp = IdleDeclOp
    /\ detectOp = IdleDetectOp
    /\ debounceTimers = NoTimers
    /\ timers = {}
    /\ now = 0
    /\ issuesByUri = NoIssues
    /\ diagnosticCollection = NoIssues
    /\ analysisOp = IdleAnalysisOp

PresentNext ==
    \/ \E path \in MapPaths, i \in PresentIssues : MapToVisualizerIssue(path, i)
    \/ \E issues \in Batches(MaxBatch) : BuildStatsModel(issues)

SpecPresent == PresentInit /\ [][PresentNext]_vars

\* The block handed to parseDeclarations, before the call.
DeclInit ==
    /\ cache = <<>>
    /\ maxSize = 1
    /\ clock = 0
    /\ lastAccess = [k \in CacheKeys |-> 0]
    /\ cacheOp = IdleCacheOp
    /\ stored = NoStored
    /\ engineOp = IdleEngineOp
    /\ config = DefaultConfig
    /\ lintOp = IdleLintOp
    /\ raw = <<>>
    /\ doc = NoDoc
    /\ parsed = NotParsed
    /\ generatorInstances = NoInstances
    /\ vizOp = IdleVizOp
    /\ presentOp = IdlePresentOp
    /\ \E fragments \in FragmentLists(MaxFragments) :
          declOp = [op |-> "init", fragments |-> fragments,
                    block |-> BlockText(fragments),
                    declarations |-> [x \in {} |-> <<>>]]
    /\ detectOp = IdleDetectOp
    /\ debounceTimers = NoTimers
    /\ timers = {}
    /\ now = 0
    /\ issuesByUri = NoIssues
    /\ diagnosticCollection = NoIssues
    /\ analysisOp = IdleAnalysisOp

DeclNext == ParseDeclarations

SpecDecl == DeclInit /\ [][DeclNext]_vars

DetectInit ==
    /\ cache = <<>>
    /\ maxSize = 1
    /\ clock = 0
    /\ lastAccess = [k \in CacheKeys |-> 0]
    /\ cacheOp = IdleCacheOp
    /\ stored = NoStored
    /\ engineOp = IdleEngineOp
    /\ config \in DetectConfigs
    /\ lintOp = IdleLintOp
    /\ raw = <<>>
    /\ doc = NoDoc
    /\ parsed = NotParsed
    /\ generatorInstances = NoInstances
    /\ vizOp = IdleVizOp
    /\ presentOp = IdlePresentOp
    /\ declOp = IdleDeclOp
    /\ detectOp = IdleDetectOp
    /\ debounceTimers = NoTimers
    /\ timers = {}
    /\ now = 0
    /\ issuesByUri = NoIssues
    /\ diagnosticCollection = NoIssues
    /\ analysisOp = IdleAnalysisOp

DetectNext ==
    \/ \E rules \in RuleLists(FlexRules, MaxRules) : DetectFlexFragility(rules)
    \/ \E rules \in RuleLists(ConflictRules, MaxRules) : DetectMediaConflicts(rules)
    \/ \E rules \in RuleLists(WidthRules, MaxRules) : DetectMediaWidthInstability(rules)
    \/ \E rules \in RuleLists(LoopRules, MaxRules) : DetectOnParsed(rules)
    \/ \E rules \in OrderedRuleLists, order \in DetectorOrders : DetectInOrder(rules, order)

SpecDetect == DetectInit /\ [][DetectNext]_vars

\* new LintEngine(): no timer, nothing cached, nothing published
AnalyzeInit ==
    /\ cache = <<>>
    /\ maxSize = 1
    /\ clock = 0
    /\ lastAccess = [k \in CacheKeys |-> 0]
    /\ cacheOp = IdleCacheOp
    /\ stored = NoStored
    /\ engineOp = IdleEngineOp
    /\ config = DefaultConfig
    /\ lintOp = IdleLintOp
    /\ raw = <<>>
    /\ doc = NoDoc
    /\ parsed = NotParsed
    /\ generatorInstances = NoInstances
    /\ vizOp = IdleVizOp
    /\ presentOp = IdlePresentOp
    /\ declOp = IdleDeclOp
    /\ detectOp = IdleDetectOp
    /\ debounceTimers = NoTimers
    /\ timers = {}
    /\ now = 0
    /\ issuesByUri = NoIssues
    /\ diagnosticCollection = NoIssues
    /\ analysisOp = IdleAnalysisOp

AnalyzeNext ==
    \/ \E u \in Uris : Analyze(u)
    \/ \E t \in timers, outcome \in Outcomes, reenter \in Uris \cup {None} : TimerFires(t, outcome, reenter)
    \/ Dispose
    \/ Tick

SpecAnalyze == AnalyzeInit /\ [][AnalyzeNext]_vars

\* new LintEngine(), before any document was mapped
MapInit ==
    /\ cache = <<>>
    /\ maxSize = 1
    /\ clock = 0
    /\ lastAccess = [k \in CacheKeys |-> 0]
    /\ cacheOp = IdleCacheOp
    /\ stored = NoStored
    /\ engineOp = IdleEngineOp
    /\ config = DefaultConfig
    /\ lintOp = IdleLintOp
    /\ raw = <<>>
    /\ doc = NoDoc
    /\ parsed = NotParsed
    /\ generatorInstances = NoInstances
    /\ vizOp = IdleVizOp
    /\ presentOp = IdlePresentOp
    /\ declOp = IdleDeclOp
    /\ detectOp = IdleDetectOp
    /\ debounceTimers = NoTimers
    /\ timers = {}
    /\ now = 0
    /\ issuesByUri = NoIssues
    /\ diagnosticCollection = NoIssues
    /\ analysisOp = IdleAnalysisOp

MapNext ==
    \E declarations \in DeclarationLists, layout \in {"lines", "inline"}, issue \in MappedIssues :
        MapIssuesToLines(declarations, layout, issue)

SpecMap == MapInit /\ [][MapNext]_vars

\* ---------- claims ----------

\* The least recently accessed key among those present in the cache.
LeastRecent(c, la) ==
    CHOOSE k \in KeysOf(c) : \A j \in KeysOf(c) : la[k] <= la[j]

\* C9: when set inserts an absent key into a full cache, the one entry
\* removed is the entry whose most recent get or set is the oldest; a set of a
\* present key or into a cache with room, and every get, removes nothing;
\* has changes neither the entries nor their order.
C9_LruEviction ==
    [][ /\ (cacheOp'.op = "set" /\ ~CacheHas(cache, cacheOp'.key)
              /\ Len(cache) = maxSize)
           => /\ KeysOf(cache) \ KeysOf(cache') = {LeastRecent(cache, lastAccess)}
              /\ CacheHas(cache', cacheOp'.key)
        /\ (cacheOp'.op = "set" /\ (CacheHas(cache, cacheOp'.key) \/ Len(cache) < maxSize))
           => KeysOf(cache') = KeysOf(cache) \cup {cacheOp'.key}
        /\ (cacheOp'.op = "get") => KeysOf(cache') = KeysOf(cache)
        /\ (cacheOp'.op = "has") => cache' = cache
      ]_vars

\* C9 witness: a set into a full cache of at least two entries has evicted a
\* key, and a key accessed after the evicted one is still cached.
C9_Witness ==
    /\ cacheOp.op = "set"
    /\ cacheOp.removed # {}
    /\ maxSize >= 2
    /\ \E k \in cacheOp.removed, j \in KeysOf(cache) :
          j # cacheOp.key /\ lastAccess[j] > lastAccess[k]

\* C10: render calls renderFn exactly when no entry is cached under the
\* issue's key type:severity:value; a render that finds the entry returns the
\* result of the renderFn call that created it; clearCache empties the cache,
\* so the next render of any key calls renderFn again.
C10_RenderCaches ==
    [][ /\ (engineOp'.op = "render")
           => /\ engineOp'.invoked = ~CacheHas(cache, engineOp'.key)
              /\ CacheHas(cache, engineOp'.key) => engineOp'.result = stored[engineOp'.key]
              /\ CacheHas(cache', engineOp'.key)
        /\ (engineOp'.op = "clearCache") => KeysOf(cache') = {}
      ]_vars

\* C10 witness: a render answered from the cache although renderFn would
\* have produced a different result, after an earlier clearCache.
C10_Witness ==
    /\ engineOp.op = "render"
    /\ ~engineOp.invoked
    /\ engineOp.result = "r1"
    /\ \E k \in EngineKeys : k # engineOp.key /\ stored[k] = "r2" /\ ~CacheHas(cache, k)

\* What the parser returned: selector and at-rule tag of each rule.
ParsedTags == [i \in 1..Len(parsed) |-> [selector |-> parsed[i].selector, at |-> parsed[i].at]]

ParseDone == parsed # NotParsed

MediaTag(cond) == [type |-> "media", condition |-> cond]

RECURSIVE SelTags(_, _)
SelTags(sels, at) ==
    IF sels = <<>> THEN <<>>
    ELSE <<[selector |-> Head(sels), at |-> at]>> \o SelTags(Tail(sels), at)

RECURSIVE SourceRules(_)
\* The rules of a document in the order they are written.
SourceRules(items) ==
    IF items = <<>> THEN <<>>
    ELSE (CASE Head(items).kind = "rule" -> SelTags(<<Head(items).sel>>, NoAt)
            [] Head(items).kind = "media" ->
                  SelTags(Head(items).rules, MediaTag(Head(items).cond))
            [] OTHER -> <<>>)
         \o SourceRules(Tail(items))

RECURSIVE SourceConditions(_)
\* The conditions of a document's @media blocks in the order they are written.
SourceConditions(items) ==
    IF items = <<>> THEN <<>>
    ELSE (IF Head(items).kind = "media" THEN <<Head(items).cond>> ELSE <<>>)
         \o SourceConditions(Tail(items))

RECURSIVE CompleteSels(_, _, _, _, _)
\* Of the rules written one after another from offset on, those whose
\* closing brace lies within the first keep characters of the text.
CompleteSels(sels, at, layout, keep, offset) ==
    IF sels = <<>> THEN <<>>
    ELSE (IF offset + Len(RuleCore(Head(sels), layout)) <= keep
          THEN <<[selector |-> Head(sels), at |-> at]>> ELSE <<>>)
         \o CompleteSels(Tail(sels), at, layout, keep,
                         offset + Len(RuleText(Head(sels), layout)))

RECURSIVE CompleteRules(_, _, _, _)
\* The rules of a document whose own closing brace is in the first keep
\* characters of its text, in the order they are written.
CompleteRules(items, layout, keep, offset) ==
    IF items = <<>> THEN <<>>
    ELSE (CASE Head(items).kind = "rule" ->
                  CompleteSels(<<Head(items).sel>>, NoAt, layout, keep, offset)
            [] Head(items).kind = "media" ->
                  CompleteSels(Head(items).rules, MediaTag(Head(items).cond), layout,
                               keep, offset + Len(MediaHead(Head(items).cond, layout)))
            [] OTHER -> <<>>)
         \o CompleteRules(Tail(items), layout, keep,
                          offset + Len(ItemText(Head(items), layout)))

Count(seq, e) == Cardinality({i \in 1..Len(seq) : seq[i] = e})

SameBag(s1, s2) ==
    /\ Len(s1) = Len(s2)
    /\ \A i \in 1..Len(s1) : Count(s1, s1[i]) = Count(s2, s1[i])

BaseOf(seq) == SelectSeq(seq, LAMBDA r : r.at.type = "null")
MediaOf(seq) == SelectSeq(seq, LAMBDA r : r.at.type = "media")
BaseFirst(seq) == BaseOf(seq) \o MediaOf(seq)

RECURSIVE IsSubsequence(_, _)
IsSubsequence(s1, s2) ==
    IF s1 = <<>> THEN TRUE
    ELSE IF s2 = <<>> THEN FALSE
    ELSE IF Head(s1) = Head(s2) THEN IsSubsequence(Tail(s1), Tail(s2))
    ELSE IsSubsequence(s1, Tail(s2))

\* The input lost nothing but trailing white space: its braces are balanced.
Intact == TrimRight(raw) = TrimRight(FullText(doc))

\* C4: for a text of flat rules and N top-level @media blocks with balanced
\* braces, the parser finds exactly the N conditions, returns every rule once
\* with the tag of the block it is written in (null outside all blocks), and
\* the number of base rules is the number of all rules minus the number of
\* rules returned for media bodies.
C4_MediaExtraction ==
    (ParseDone /\ Intact) =>
        LET blocks == MediaBlocks(stripComments(raw), 1) IN
        /\ [i \in 1..Len(blocks) |-> blocks[i].condition] = SourceConditions(doc.items)
        /\ SameBag(ParsedTags, SourceRules(doc.items))
        /\ Len(BaseOf(ParsedTags))
             = Len(SourceRules(doc.items)) - Len(MediaOf(ParsedTags))

\* C4 witness: a balanced text with two @media blocks, one of them holding
\* two rules, and a flat rule outside them has been parsed.
C4_Witness ==
    /\ ParseDone /\ Intact
    /\ Len(SourceConditions(doc.items)) = 2
    /\ \E i \in 1..Len(doc.items) : Len(doc.items[i].rules) = 2
    /\ \E i \in 1..Len(doc.items) : doc.items[i].kind = "rule"
    /\ Len(MediaOf(ParsedTags)) >= 3

\* C7: on a text that ends early (unbalanced braces) the parser returns
\* exactly the rules whose own closing brace is present, those inside the
\* unterminated @media block included, and drops only the rule left open.
C7_UnbalancedKeepsCompleteRules ==
    (ParseDone /\ ~Intact) =>
        SameBag(ParsedTags, CompleteRules(doc.items, doc.layout, Len(raw), 0))

\* C8 as stated: the returned rules are in the order their blocks start in
\* the text, base and media rules alike.
C8_SourceOrder ==
    ParseDone =>
        /\ IsSubsequence(ParsedTags, SourceRules(doc.items))
        /\ Intact => ParsedTags = SourceRules(doc.items)

\* C8 amended: the returned sequence is all base rules in the order they are
\* written, followed by all media rules in the order they are written; a
\* media rule written before a base rule comes after it in the sequence.
C8_BaseThenMediaOrder ==
    ParseDone =>
        /\ IsSubsequence(ParsedTags, BaseFirst(SourceRules(doc.items)))
        /\ Intact => ParsedTags = BaseFirst(SourceRules(doc.items))

\* C8 witness: a balanced text whose first item is an @media block with a
\* rule and which has a flat rule after it has been parsed.
C8_Witness ==
    /\ ParseDone /\ Intact
    /\ Len(doc.items) >= 2
    /\ doc.items[1].kind = "media" /\ Len(doc.items[1].rules) >= 1
    /\ \E i \in 2..Len(doc.items) : doc.items[i].kind = "rule"
    /\ Len(parsed) >= 2 /\ parsed[1].at.type = "null"

\* The threshold the policy documents for a kind.
ThresholdOf(cfg, kind) ==
    IF kind = "height" THEN cfg.fixedHeightThreshold
    ELSE IF kind = "spacing" THEN cfg.fixedSpacingThreshold
    ELSE cfg.fixedWidthThreshold

\* C5: shouldReportFixedValue returns true for every value in strict mode; in
\* pragmatic mode it returns true for a non-finite value, and for a finite
\* value of kind width, flex-basis, grid-track, height or spacing it returns
\* true exactly when the value is strictly greater than the kind's threshold.
C5_ThresholdPolicy ==
    lintOp.op = "shouldReport" =>
        /\ config.mode = "strict" => lintOp.ret
        /\ (config.mode = "pragmatic" /\ ~IsFinite(lintOp.value)) => lintOp.ret
        /\ (config.mode = "pragmatic" /\ IsFinite(lintOp.value) /\ lintOp.kind # "other")
           => (lintOp.ret <=> lintOp.value.n > ThresholdOf(config, lintOp.kind))

\* C5 witness: in pragmatic mode a height equal to the height threshold was
\* submitted and not reported.
C5_Witness ==
    /\ lintOp.op = "shouldReport"
    /\ config.mode = "pragmatic"
    /\ lintOp.kind = "height"
    /\ IsFinite(lintOp.value)
    /\ lintOp.value.n = config.fixedHeightThreshold
    /\ ~lintOp.ret

\* C6: in pragmatic mode detectIssues returns no "Fixed width" issue whose px
\* number is at most fixedWidthThreshold and no "Fixed height" issue whose px
\* number is at most fixedHeightThreshold, whatever the document's language.
C6_PragmaticGatesEveryPath ==
    (lintOp.op = "detectIssues" /\ config.mode = "pragmatic") =>
        \A i \in 1..Len(lintOp.issues) :
            /\ lintOp.issues[i].issue = "Fixed width"
               => lintOp.issues[i].value.num > config.fixedWidthThreshold
            /\ lintOp.issues[i].issue = "Fixed height"
               => lintOp.issues[i].value.num > config.fixedHeightThreshold

\* ---------- claims on the diagrams ----------

\* The last call was generate() on an issue that passes validation and whose
\* type is one of the 12 built-in types, and the generator that rendered it
\* is the built-in one.
BuiltinDiagram ==
    /\ vizOp.op = "generate" /\ vizOp.outcome = "returned"
    /\ isValidIssue(vizOp.issue)
    /\ vizOp.issue.type \in BuiltinTypes
    /\ generatorInstances[vizOp.issue.type] = BuiltinInstance

\* ascii.split('\n')
AsciiLines == Split(vizOp.result.ascii, "\n")

\* C1: every line of the ascii that generate returns for a valid issue of a
\* built-in type is at most 60 long (String length) and the ascii has at most
\* 20 lines.
C1_SizeBound ==
    BuiltinDiagram =>
        \A lines \in {AsciiLines} :
            /\ \A i \in 1..Len(lines) : Length(lines[i]) <= 60
            /\ Len(lines) <= 20

BeforeMeasure(issue) ==
    <<" ", " ", EMOJI.PROBLEM, " ">> \o issue.property \o <<":", " ">> \o issue.value
AfterMeasure(issue) == <<EMOJI.SOLUTION, " ">> \o issue.suggestion

C3_NeverThrows ==
    vizOp.op = "generate" => vizOp.outcome = "returned"

\* An issue that is missing or lacks a required field.
InvalidIssue(issue) ==
    \/ issue = NoIssue
    \/ issue.type = ""
    \/ issue.severity = ""
    \/ issue.selector = <<>>
    \/ issue.property = <<>>
    \/ issue.value = <<>>
    \/ issue.line.type # "number"

InvalidIssueData == <<"I", "n", "v", "a", "l", "i", "d", " ", "i", "s", "s", "u", "e", " ", "d", "a", "t", "a">>

\* C11: a call of generate on an issue that is missing or lacks a required
\* field returns the error diagram that says 'Invalid issue data', whatever
\* the type, leaves the generator instances as they were and calls no
\* generator.
C11_ValidatesBeforeLookup ==
    [][(vizOp'.op = "generate" /\ InvalidIssue(vizOp'.issue)) =>
          /\ vizOp'.outcome = "returned"
          /\ Includes(vizOp'.result.ascii, InvalidIssueData)
          /\ ~vizOp'.invoked
          /\ generatorInstances' = generatorInstances]_vars

\* C11 witness: generate was called on an issue of a built-in type whose line
\* is not a number; it returned the error diagram and no generator exists.
C11_Witness ==
    /\ vizOp.op = "generate"
    /\ vizOp.issue.type \in BuiltinTypes
    /\ vizOp.issue.line.type # "number"
    /\ Includes(vizOp.result.ascii, InvalidIssueData)
    /\ DOMAIN generatorInstances = {}

\* The one-line fallback of generateFallback.
IsFallback(visualization) ==
    /\ visualization.height = 1
    /\ Includes(visualization.ascii,
                <<"v", "i", "s", "u", "a", "l", "i", "z", "a", "t", "i", "o", "n", " ", "n", "o", "t", " ", "a", "v", "a", "i", "l", "a", "b", "l", "e">>)

\* C12: after any calls of registerGenerator and generate, a call of generate
\* on a valid issue gives the fallback exactly when the type of the issue is
\* not among getSupportedTypes().
C12_FallbackIffUnsupported ==
    (vizOp.op = "generate" /\ isValidIssue(vizOp.issue)) =>
        (IsFallback(vizOp.result)
            <=> vizOp.issue.type \notin getSupportedTypes(generatorInstances))

\* C12 witness: a generator was registered for one type, and generate on a
\* valid issue of another type that has no factory gave the fallback.
C12_Witness ==
    /\ vizOp.op = "generate"
    /\ isValidIssue(vizOp.issue)
    /\ vizOp.issue.type = "custom-type"
    /\ "error-type" \in DOMAIN generatorInstances
    /\ IsFallback(vizOp.result)

\* C13: whichever of the three mapToVisualizerIssue is called, an issue whose
\* kind has no diagram type maps to null, and the type returned is the type
\* each of the three returns for that issue.
C13_UnmappedKindIsNullEverywhere ==
    presentOp.op = "map" =>
        LET issue == presentOp.issues[1] IN
        /\ issue.issue \notin DOMAIN TypeMap => presentOp.mapped = NullVisualizerIssue
        /\ presentOp.mapped.type = StatsMapToVisualizerIssue(issue).type
        /\ presentOp.mapped.type = HoverMapToVisualizerIssue(issue).type
        /\ presentOp.mapped.type = LintMapToVisualizerIssue(issue).type

\* The visualization of an issue presented alone, by a new visualizer.
AloneVisualization(issue) ==
    LET mapped == StatsMapToVisualizerIssue(issue)
        done == generate(NoInstances, mapped)
    IN  IF mapped = NullVisualizerIssue \/ done.outcome = "thrown"
        THEN NullVisualization
        ELSE [null |-> FALSE, ascii |-> done.result.ascii]

\* Generating the diagram of the issue throws.
GenerationThrows(issue) ==
    /\ StatsMapToVisualizerIssue(issue) # NullVisualizerIssue
    /\ generate(NoInstances, StatsMapToVisualizerIssue(issue)).outcome = "thrown"

\* C14: buildStatsModel returns one item per issue, in the order of the
\* issues; the item of an issue whose diagram generation throws has a null
\* visualization, and every item has the visualization its issue gets when
\* it is presented alone.
C14_OneItemPerIssue ==
    presentOp.op = "stats" =>
        LET issues == presentOp.issues
            items == presentOp.model.items
        IN  /\ Len(items) = Len(issues)
            /\ \A k \in 1..Len(issues) :
                  /\ items[k].idx = k - 1
                  /\ items[k].title = issues[k].issue
                  /\ items[k].line = issues[k].lineNumber
                  /\ GenerationThrows(issues[k]) =>
                        items[k].visualization = NullVisualization
                  /\ items[k].visualization = AloneVisualization(issues[k])

\* C14 witness: a batch of two issues; generation threw for the first, whose
\* item has no visualization, and the second has its diagram.
C14_Witness ==
    /\ presentOp.op = "stats"
    /\ Len(presentOp.issues) = 2
    /\ GenerationThrows(presentOp.issues[1])
    /\ Len(presentOp.model.items) = 2
    /\ presentOp.model.items[1].visualization = NullVisualization
    /\ ~presentOp.model.items[2].visualization.null

\* The positions of the fragments that declare the property.
Declaring(fragments, property) ==
    {k \in 1..Len(fragments) : fragments[k].declares /\ fragments[k].property = property}

\* C20: parseDeclarations maps exactly the properties that some fragment
\* declares, lower-cased, each to the trimmed value of the last fragment that
\* declares it; empty fragments and fragments without a colon add nothing.
C20_LastDeclarationWins ==
    declOp.op = "parse" =>
        LET fragments == declOp.fragments
            declared == {fragments[k].property :
                            k \in {j \in 1..Len(fragments) : fragments[j].declares}}
        IN  /\ DOMAIN declOp.declarations = declared
            /\ \A p \in declared :
                  declOp.declarations[p] =
                      fragments[SetMax(Declaring(fragments, p))].value

\* C20 witness: a block that declares one property twice with different
\* values and holds a fragment without a colon; the later value is kept.
C20_Witness ==
    /\ declOp.op = "parse"
    /\ \E p \in DOMAIN declOp.declarations :
          /\ Cardinality(Declaring(declOp.fragments, p)) >= 2
          /\ \E k \in Declaring(declOp.fragments, p) :
                declOp.fragments[k].value # declOp.declarations[p]
    /\ \E k \in 1..Len(declOp.fragments) : ~declOp.fragments[k].declares

\* ---------- claims on the detectors ----------

\* The issues of a detector run that carry a name and a selector, by position.
IssuesAbout(issues, name, sel) ==
    {i \in 1..Len(issues) : issues[i].issue = name /\ issues[i].selector = sel}

\* C15: for any ignoreSelectors list, each of the per-rule detectors
\* FlexFragility, VwWidthRisk and OverflowMaskBody skips exactly the rules
\* whose selector contains some list entry as a case-insensitive substring:
\* what it emits is what it emits, with nothing ignored, for the rules whose
\* selector contains no entry, so that the skipped rules are the same for the
\* three of them.
C15_IgnoredRulesSkippedAlike ==
    detectOp.op = "detectIssues" =>
        LET listed(sel) ==
                \E e \in 1..Len(config.ignoreSelectors) :
                    Includes(ToLower(sel), ToLower(config.ignoreSelectors[e]))
            others == SelectSeq(detectOp.rules, LAMBDA r : ~listed(r.selector))
            open == [config EXCEPT !.ignoreSelectors = <<>>]
        IN  /\ detectOp.perDetector.flexFragility = detectFlexFragility(open, others)
            /\ detectOp.perDetector.vwWidthRisk = detectVwWidthRisk(open, others)
            /\ detectOp.perDetector.overflowMaskBody = detectOverflowMaskBody(open, others)

\* Some property has more than one raw value across the blocks of a selector.
HasConflict(rules, sel) ==
    \E j \in 1..Len(rules), k \in 1..Len(rules) :
        /\ rules[j].selector = sel /\ rules[k].selector = sel
        /\ \E p \in DOMAIN rules[j].declarations \cap DOMAIN rules[k].declarations :
              rules[j].declarations[p] # rules[k].declarations[p]

\* C16: detectMediaConflicts groups the rule blocks, base and media, by their
\* selector string and emits for each selector exactly one 'Media query
\* instability' issue if some property has more than one raw value across its
\* blocks and none otherwise, however many of its properties conflict.
C16_OneIssuePerConflictingSelector ==
    detectOp.op = "mediaConflicts" =>
        LET rules == detectOp.rules
            issues == detectOp.issues
        IN  /\ \A i \in 1..Len(issues) :
                  /\ issues[i].issue = "Media query instability"
                  /\ \E k \in 1..Len(rules) : rules[k].selector = issues[i].selector
            /\ \A k \in 1..Len(rules) :
                  Cardinality(IssuesAbout(issues, "Media query instability",
                                          rules[k].selector))
                    = IF HasConflict(rules, rules[k].selector) THEN 1 ELSE 0

\* C16 witness: a base block and a media block of one selector differ in two
\* properties and the selector gets its one issue.
C16_Witness ==
    /\ detectOp.op = "mediaConflicts"
    /\ Len(detectOp.issues) = 1
    /\ \E j \in 1..Len(detectOp.rules), k \in 1..Len(detectOp.rules) :
          /\ ~IsMedia(detectOp.rules[j]) /\ IsMedia(detectOp.rules[k])
          /\ detectOp.rules[j].selector = detectOp.rules[k].selector
          /\ detectOp.issues[1].selector = detectOp.rules[j].selector
          /\ Cardinality({p \in DOMAIN detectOp.rules[j].declarations
                                   \cap DOMAIN detectOp.rules[k].declarations :
                            detectOp.rules[j].declarations[p]
                              # detectOp.rules[k].declarations[p]}) >= 2

\* The px number of a width, as its text: the number that stands before px.
WidthPxNumber(w) == FloatPxCapture(w)

\* C17: detectMediaWidthInstability emits one medium issue for a selector
\* exactly when the selector has a fixed-px width in some base rule and a
\* fixed-px width in some media rule whose px number differs from the base
\* width number, and no issue for a selector otherwise.
C17_IssueIffPxNumbersDiffer ==
    detectOp.op = "mediaWidthInstability" =>
        LET rules == detectOp.rules
            issues == detectOp.issues
            differs(sel) ==
                \E b \in 1..Len(rules), m \in 1..Len(rules) :
                    /\ ~IsMedia(rules[b]) /\ rules[b].selector = sel
                    /\ IsMedia(rules[m]) /\ rules[m].selector = sel
                    /\ WidthPxNumber(Decl(rules[b], <<"w", "i", "d", "t", "h">>)) # <<>>
                    /\ WidthPxNumber(Decl(rules[m], <<"w", "i", "d", "t", "h">>)) # <<>>
                    /\ WidthPxNumber(Decl(rules[m], <<"w", "i", "d", "t", "h">>)) # WidthPxNumber(Decl(rules[b], <<"w", "i", "d", "t", "h">>))
        IN  /\ \A i \in 1..Len(issues) :
                  /\ issues[i].severity = "medium"
                  /\ \E k \in 1..Len(rules) : rules[k].selector = issues[i].selector
            /\ \A k \in 1..Len(rules) :
                  Cardinality({i \in 1..Len(issues) : issues[i].selector = rules[k].selector})
                    = IF differs(rules[k].selector) THEN 1 ELSE 0

\* The fixed basis that triggers sub-check (a) for a rule: the px number of
\* its flex-basis, or the N of its 'flex: 0 0 Npx' shorthand; NaN if the rule
\* has neither.
TriggeringBasis(r) ==
    IF HasFixedPx(Decl(r, <<"f", "l", "e", "x", "-", "b", "a", "s", "i", "s">>))
    THEN ParseFloat(FloatPxCapture(Decl(r, <<"f", "l", "e", "x", "-", "b", "a", "s", "i", "s">>)))
    ELSE IF HasRigidShorthand(Decl(r, <<"f", "l", "e", "x">>))
    THEN ParseFloat(ShorthandCapture(Decl(r, <<"f", "l", "e", "x">>)))
    ELSE NaN

\* C18: in pragmatic mode detectFlexFragility emits the critical
\* 'Non-wrapping fixed flex basis' issue only for a flex rule with flex-wrap:
\* nowrap whose triggering fixed basis is strictly greater than
\* fixedWidthThreshold.
C18_CriticalOnlyAboveThreshold ==
    (detectOp.op = "flexFragility" /\ config.mode = "pragmatic") =>
        \A i \in 1..Len(detectOp.issues) :
            detectOp.issues[i].issue = "Non-wrapping fixed flex basis" =>
                \E k \in 1..Len(detectOp.rules) :
                    LET r == detectOp.rules[k] IN
                    /\ r.selector = detectOp.issues[i].selector
                    /\ Includes(ToLower(Decl(r, <<"d", "i", "s", "p", "l", "a", "y">>)), <<"f", "l", "e", "x">>)
                    /\ Includes(ToLower(Decl(r, <<"f", "l", "e", "x", "-", "w", "r", "a", "p">>)), <<"n", "o", "w", "r", "a", "p">>)
                    /\ TriggeringBasis(r).kind = "finite"
                    /\ TriggeringBasis(r).n > config.fixedWidthThreshold

\* The rules FlexFragility looks at: not ignored, with a display value that
\* contains 'flex'.
FlexContainers(cfg, rules) ==
    {k \in 1..Len(rules) :
        /\ ~\E e \in 1..Len(cfg.ignoreSelectors) :
              Includes(ToLower(rules[k].selector), ToLower(cfg.ignoreSelectors[e]))
        /\ Includes(ToLower(Decl(rules[k], <<"d", "i", "s", "p", "l", "a", "y">>)), <<"f", "l", "e", "x">>)}

\* The original statement of C19: the 'Flex container without wrap' issue is
\* emitted once for each flex rule that has no flex-wrap declaration at all
\* and never for a rule that declares flex-wrap, whatever the value.
C19_MissingWrapIffUndeclared ==
    detectOp.op = "flexFragility" =>
        LET rules == detectOp.rules
            issues == detectOp.issues
        IN  \A k \in 1..Len(rules) :
                Cardinality(IssuesAbout(issues, "Flex container without wrap",
                                        rules[k].selector))
                  = Cardinality({j \in FlexContainers(config, rules) :
                                    /\ rules[j].selector = rules[k].selector
                                    /\ <<"f", "l", "e", "x", "-", "w", "r", "a", "p">> \notin DOMAIN rules[j].declarations})

\* C19: for the non-ignored rules whose display value contains 'flex',
\* detectFlexFragility emits the medium 'Flex container without wrap' issue
\* once for each rule that has no flex-wrap declaration or an empty flex-wrap
\* value, and never for a rule whose flex-wrap value is not empty.
C19_MissingWrapIffNoWrapValue ==
    detectOp.op = "flexFragility" =>
        LET rules == detectOp.rules
            issues == detectOp.issues
            valued(r) == /\ <<"f", "l", "e", "x", "-", "w", "r", "a", "p">> \in DOMAIN r.declarations
                         /\ r.declarations[<<"f", "l", "e", "x", "-", "w", "r", "a", "p">>] # <<>>
        IN  /\ \A i \in 1..Len(issues) :
                  issues[i].issue = "Flex container without wrap" =>
                      issues[i].severity = "medium"
            /\ \A k \in 1..Len(rules) :
                  Cardinality(IssuesAbout(issues, "Flex container without wrap",
                                          rules[k].selector))
                    = Cardinality({j \in FlexContainers(config, rules) :
                                      /\ rules[j].selector = rules[k].selector
                                      /\ ~valued(rules[j])})

\* C19 witness: of two flex rules that are not ignored, the one that declares
\* flex-wrap without a value got the issue and the one with flex-wrap: wrap
\* got none.
C19_Witness ==
    /\ detectOp.op = "flexFragility"
    /\ Len(detectOp.rules) = 2
    /\ FlexContainers(config, detectOp.rules) = {1, 2}
    /\ detectOp.rules[1].selector # detectOp.rules[2].selector
    /\ <<"f", "l", "e", "x", "-", "w", "r", "a", "p">> \in DOMAIN detectOp.rules[1].declarations
    /\ Decl(detectOp.rules[1], <<"f", "l", "e", "x", "-", "w", "r", "a", "p">>) = <<>>
    /\ Decl(detectOp.rules[2], <<"f", "l", "e", "x", "-", "w", "r", "a", "p">>) = <<"w", "r", "a", "p">>
    /\ IssuesAbout(detectOp.issues, "Flex container without wrap",
                   detectOp.rules[1].selector) # {}
    /\ IssuesAbout(detectOp.issues, "Flex container without wrap",
                   detectOp.rules[2].selector) = {}

\* ---------- claims on the cache size ----------

\* C29: after any set, get, has or clear on a TemplateCache constructed with
\* maxSize >= 1 the number of cached entries is at most maxSize, and a set of
\* a key that is already present removes no other key.
C29_SizeBoundedAndResetKeepsOthers ==
    [][ /\ maxSize >= 1 => Len(cache') <= maxSize
        /\ (cacheOp'.op = "set" /\ CacheHas(cache, cacheOp'.key))
              => KeysOf(cache') = KeysOf(cache)
      ]_vars

\* C29 witness: a set of a key that was present in a full cache of at least
\* two entries; the cache is still full and no key was removed.
C29_Witness ==
    /\ cacheOp.op = "set"
    /\ cacheOp.had
    /\ maxSize >= 2
    /\ Len(cache) = maxSize
    /\ cacheOp.removed = {}

\* ---------- claims on the visualizations ----------

\* C22: the width and height of every visualization that generate returns,
\* be it a diagram, the fallback or the error diagram, describe its ascii:
\* height is the number of its lines and width the length of its longest line,
\* with width at most 60 and height at most 20.
C22_SizeFieldsDescribeAscii ==
    (vizOp.op = "generate" /\ vizOp.outcome = "returned") =>
        \A lines \in {AsciiLines} :
            /\ vizOp.result.height = Len(lines)
            /\ vizOp.result.width = SetMax({Length(lines[i]) : i \in 1..Len(lines)})
            /\ vizOp.result.width <= 60
            /\ vizOp.result.height <= 20

\* C23: every diagram a built-in generator produces from a valid issue
\* holds the line token, 'L' followed by the issue's line number, the problem
\* marker at the start of the 'before' measurements and the solution marker
\* before the 'after' measurements.
C23_LineTokenAndMarkers ==
    BuiltinDiagram =>
        \E ascii \in {vizOp.result.ascii} :
            /\ Includes(ascii, <<CHARS.DOT, " ", "L">> \o NumberToString(vizOp.issue.line.n)
                                  \o <<" ">>)
            /\ Includes(ascii, <<CHARS.V_LINE, " ", " ", EMOJI.PROBLEM, " ">>)
            /\ Includes(ascii, <<" ", EMOJI.SOLUTION, " ">>)

\* C23 witness: the diagram of an issue on line 1200 whose severity glyph is
\* neither marker and whose measurements fill the left column.
C23_Witness ==
    /\ BuiltinDiagram
    /\ vizOp.issue.line.n = 1200
    /\ vizOp.issue.severity = "low"
    /\ visualLength(BeforeMeasure(vizOp.issue)) = 29
    /\ Includes(vizOp.result.ascii, <<"L", "1", "2", "0", "0">>)

\* C30: every line of a diagram that a built-in generator produces has the
\* visual width maxWidth, 60, as visualLength measures it, so that the right
\* border stands in the same column on every line.
C30_EveryLineIsMaxWidthWide ==
    BuiltinDiagram =>
        \A lines \in {AsciiLines} :
            \A i \in 1..Len(lines) : visualLength(lines[i]) = maxWidth

\* No generator has been handed to registerGenerator.
NoCustomGenerator ==
    \A t \in DOMAIN generatorInstances : generatorInstances[t] = BuiltinInstance

PendingFor(u) == {t \in timers : t.uri = u}

\* C28: in every reachable state each scheduled, unfired debounce timer is
\* recorded in debounceTimers under its URI, also after a listener called
\* analyze from inside the timer callback, and no executeAnalysis is started
\* by a timer after dispose().
C28_PendingTimersAreRecorded ==
    /\ \A t \in timers : t.uri \in DOMAIN debounceTimers /\ debounceTimers[t.uri] = t.id
    /\ \A i \in 1..Len(analysisOp.runs) : ~analysisOp.runs[i].disposed

\* A later call for the same URI made less than debounceMs after call k
Superseded(k) ==
    \E j \in (k + 1)..Len(analysisOp.calls) :
        /\ analysisOp.calls[j].uri = analysisOp.calls[k].uri
        /\ analysisOp.calls[j].at < analysisOp.calls[k].at + debounceMs

\* The analyses run for the document of call k
RunsOf(k) == {i \in 1..Len(analysisOp.runs) : analysisOp.runs[i].document = k}

\* C21: analysis is debounced per URI: at most one timer is pending per URI, a
\* call followed within debounceMs by another call for its URI never runs, and
\* the last call of a burst runs exactly once, debounceMs after it was made,
\* whatever happens to other URIs.
C21_OneAnalysisPerBurst ==
    /\ \A u \in Uris : Cardinality(PendingFor(u)) <= 1
    /\ \A k \in 1..Len(analysisOp.calls) :
        /\ Superseded(k) => RunsOf(k) = {}
        /\ Cardinality(RunsOf(k)) <= 1
        /\ \A i \in RunsOf(k) : analysisOp.runs[i].at = analysisOp.calls[k].at + debounceMs
        /\ (~Superseded(k) /\ ~analysisOp.disposed /\ now > analysisOp.calls[k].at + debounceMs)
              => RunsOf(k) # {}

\* The issues a list of published diagnostics describes
DiagnosedIssues(diagnostics) == [i \in 1..Len(diagnostics) |-> diagnostics[i].message]

\* C27: after every executeAnalysis, whether detection returned or threw, the
\* issues cached for the URI, the issues last delivered to the listeners and
\* the diagnostics published for it are the same list of at most maxProblems
\* issues.
C27_CacheListenersDiagnosticsAgree ==
    \A u \in DOMAIN diagnosticCollection :
        /\ DiagnosedIssues(diagnosticCollection[u]) = getIssuesForUri(issuesByUri, u)
        /\ getIssuesForUri(analysisOp.delivered, u) = getIssuesForUri(issuesByUri, u)
        /\ Len(getIssuesForUri(issuesByUri, u)) <= maxProblems

\* ---------- claims on the mapping of issues to lines ----------

\* C25: an issue that carries a property is placed on the first line of the
\* selector's block that matches the property pattern, with that declaration's
\* px token highlighted, and the bare px-token pattern decides the position
\* only of an issue without a property; an issue no pattern places stays on
\* the selector's line.
C25_PropertyPatternDecides ==
    lintOp.op = "mapIssuesToLines" =>
        LET lines == Split(lintOp.text, "\n")
            issue == lintOp.issue
            r == lintOp.mapped
            first == SelectorLine(lines, issue.selector)
            block == first..EndBlockLine(lines, first)
            byProperty == {i \in block : PropertyMatches(lines[i + 1], issue.property) # {}}
            byUnit == {i \in block : UnitMatches(lines[i + 1]) # {}}
            OnSelectorLine ==
                r.lineNumber = first /\ r.startChar = 0 /\ r.endChar = Max(1, Len(lines[first + 1]))
            TokenWithin(ln, from, to) ==
                /\ <<r.startChar + 1, r.endChar>> \in UnitMatches(ln)
                /\ r.startChar + 1 >= from
                /\ r.endChar <= to
        IN  IF issue.property # <<>>
            THEN IF byProperty # {}
                 THEN /\ r.lineNumber = SetMin(byProperty)
                      /\ LET ln == lines[r.lineNumber + 1]
                             m == LeftMost(PropertyMatches(ln, issue.property))
                         IN  TokenWithin(ln, m.index, m.end)
                 ELSE OnSelectorLine
            ELSE IF byUnit # {}
                 THEN /\ r.lineNumber = SetMin(byUnit)
                      /\ TokenWithin(lines[r.lineNumber + 1], 1, Len(lines[r.lineNumber + 1]))
                 ELSE OnSelectorLine

\* ---------- claims on the order of the detectors ----------

\* The multiset of the entries of a list
BagOf(list) ==
    [x \in {list[i] : i \in 1..Len(list)} |-> Cardinality({i \in 1..Len(list) : list[i] = x})]

====
